---- MODULE Spec2Model ----
(***************************************************************************)
(* A model of the operating-system simulator's kernel: Disk, Memory, the   *)
(* process control blocks, the long-term scheduler, the short-term         *)
(* scheduler with its dispatcher thread, the CPU fetch/execute thread and  *)
(* the Driver's batch loop.                                                *)
(*                                                                         *)
(* A 32-bit word (u32) is an integer in -2^31 .. 2^31-1 standing for its   *)
(* value modulo 2^32, so that every word fits the model checker's integers.*)
(* An Arc<Mutex<ProcessControlBlock>> is a handle: an index into pcb_heap. *)
(* A HashMap is a function whose DOMAIN is the set of its keys.            *)
(* A panic sets `panicked` (sequential code) or parks the panicking thread *)
(* at the position "panicked".                                             *)
(***************************************************************************)
EXTENDS Integers, Sequences, FiniteSets, TLC

VARIABLES
    \* io::Disk
    disk_program_map, disk_data, disk_current_data_idx,
    \* kernel::Memory
    mem_pcb_map, mem_data, mem_current_data_idx,
    \* the heap of process control blocks (the Arc targets)
    pcb_heap,
    \* kernel::LongTermScheduler
    program_queue, unload_list,
    \* what the last LongTermScheduler call was and what it returned
    last_call,
    \* every id ever passed to enqueue_programs / ever returned by step, in order
    enqueued_log, admitted_log,
    \* how many direct Memory.write_to calls (or, for a Disk used on its own,
    \* write_program and update_program calls) were made
    writes_made,
    \* "none", or the message of the panic that aborted the sequential caller
    panicked,
    \* kernel::ShortTermScheduler (ShortTermSchedulerResources)
    scheduling_alg, ready_queue, current_pcb, all_procs_are_finished,
    \* kernel::Cpu (CpuResources)
    cpu_cache, cpu_program_counter, cpu_mem_start_address, cpu_registers,
    proc_should_interrupt, proc_interrupt_type,
    \* the DMA channel of the Cpu: the command sent and not yet received, the
    \* reply sent and not yet received, and the DMA thread's position
    dma_command, dma_response, dma_pc,
    \* the Driver thread in Driver::start: its position and locals
    drv_pc, drv_process_ids, process_stats,
    \* the dispatcher thread in ShortTermScheduler::dispatch: its position and locals
    disp_pc, disp_in_pcb, disp_out_pcb, disp_out_pcb_state,
    \* the CPU thread in Cpu::cycle: its position
    cpu_pc,
    \* the handles of the PCBs given to schedule_process / loaded by execute_process, in order
    scheduled_log, loaded_log,
    \* whether a thread panicked while it held the CpuResources mutex, or the
    \* write lock of the Memory: the lock is poisoned
    cpu_poisoned, mem_poisoned,
    \* the flags of the three background loops, and where impl Drop for Cpu is
    dispatch_should_terminate, cycle_should_terminate, dma_should_terminate, cpu_drop_pc

diskVars == <<disk_program_map, disk_data, disk_current_data_idx>>
memVars  == <<mem_pcb_map, mem_data, mem_current_data_idx, pcb_heap>>
ltsVars  == <<program_queue, unload_list>>
obsVars  == <<last_call, enqueued_log, admitted_log, writes_made, panicked>>

stsVars  == <<scheduling_alg, ready_queue, current_pcb, all_procs_are_finished>>
dmaVars  == <<dma_command, dma_response, dma_pc>>
cpuVars  == <<cpu_cache, cpu_program_counter, cpu_mem_start_address, cpu_registers,
              proc_should_interrupt, proc_interrupt_type, dmaVars>>
drvVars  == <<drv_pc, drv_process_ids, process_stats>>
dispVars == <<disp_pc, disp_in_pcb, disp_out_pcb, disp_out_pcb_state>>
logVars  == <<scheduled_log, loaded_log>>
poisonVars == <<cpu_poisoned, mem_poisoned>>
dropVars == <<dispatch_should_terminate, cycle_should_terminate, dma_should_terminate,
              cpu_drop_pc>>
sysVars  == <<stsVars, cpuVars, drvVars, dispVars, cpu_pc, logVars, poisonVars, dropVars>>

vars == <<diskVars, memVars, ltsVars, obsVars, sysVars>>

(***************************************************************************)
(* Program constants                                                       *)
(***************************************************************************)
MEMORY_SIZE == 1024
DISK_SIZE == 4096
NUM_REGISTERS == 16

(***************************************************************************)
(* Bounds of the model                                                     *)
(***************************************************************************)
\* how many program ids the callers enqueue in all
MaxEnqueued == 3
\* how many direct Memory.write_to calls a run makes
MaxWrites == 1
\* how many write_program and update_program calls are made on a Disk of its own
MaxDiskCalls == 3

(***************************************************************************)
(* Sequences and maps                                                      *)
(***************************************************************************)
EmptyMap == << >>

MapInsert(m, k, v) == [x \in (DOMAIN m) \cup {k} |-> IF x = k THEN v ELSE m[x]]

\* A zero-based array (the word pools of Disk and Memory) is the sequence of
\* its words: the word at index i is a[i + 1].
At(a, i) == a[i + 1]

\* the array of n zero words
Zeros(n) == [i \in 1..n |-> 0]

\* the words a[from], ..., a[to - 1], as a sequence
Slice(a, from, to) == SubSeq(a, from + 1, to)

\* the array a with the sequence s copied to a[at], a[at + 1], ...
CopyFromSlice(a, at, s) ==
    SubSeq(a, 1, at) \o s \o SubSeq(a, at + Len(s) + 1, Len(a))

\* the array a with a[i] set to v
SetAt(a, i, v) == [a EXCEPT ![i + 1] = v]

(***************************************************************************)
(* io::Disk                                                                *)
(***************************************************************************)
DiskNew ==
    [program_map |-> EmptyMap,
     data |-> Zeros(DISK_SIZE),
     current_data_idx |-> 0,
     panic |-> "none"]

\* Disk::write_program
DiskWriteProgram(d, id, priority, instruction_buffer_size, in_buffer_size, out_buffer_size, temp_buffer_size, data) ==
    LET data_start_idx == d.current_data_idx
        data_end_idx == data_start_idx + Len(data)
    IN  IF data_end_idx > DISK_SIZE
        THEN [d EXCEPT !.panic = "Out of bounds disk access"]
        ELSE [d EXCEPT
                !.data = CopyFromSlice(d.data, data_start_idx, data),
                !.current_data_idx = d.current_data_idx + Len(data),
                !.program_map = MapInsert(d.program_map, id,
                    [id |-> id,
                     priority |-> priority,
                     instruction_buffer_size |-> instruction_buffer_size,
                     in_buffer_size |-> in_buffer_size,
                     out_buffer_size |-> out_buffer_size,
                     temp_buffer_size |-> temp_buffer_size,
                     data_start_idx |-> data_start_idx])]

\* Disk::read_data_for, on a given word pool
DiskReadDataFor(data, program_info) ==
    LET data_start_idx == program_info.data_start_idx
        data_end_idx == data_start_idx
                        + program_info.instruction_buffer_size
                        + program_info.in_buffer_size
                        + program_info.out_buffer_size
                        + program_info.temp_buffer_size
    IN  Slice(data, data_start_idx, data_end_idx)

\* Disk::update_program with the start of the output region computed without the
\* input region's size
DiskUpdateProgram_SkipsInput(data, program_info, new_data) ==
    LET data_start_idx == program_info.data_start_idx
                          + program_info.instruction_buffer_size
        data_end_idx == data_start_idx
                        + program_info.out_buffer_size
                        + program_info.temp_buffer_size
    IN  IF Len(new_data) # data_end_idx - data_start_idx
        THEN [data |-> data,
              panic |-> "Data length does not match program output buffer and temp buffer data length"]
        ELSE [data |-> CopyFromSlice(data, data_start_idx, new_data),
              panic |-> "none"]

\* Disk::update_program, on a given word pool: the new pool and the panic, if any
DiskUpdateProgram(data, program_info, new_data) ==
    LET data_start_idx == program_info.data_start_idx
                          + program_info.instruction_buffer_size
                          + program_info.in_buffer_size
        data_end_idx == data_start_idx
                        + program_info.out_buffer_size
                        + program_info.temp_buffer_size
    IN  IF Len(new_data) # data_end_idx - data_start_idx
        THEN [data |-> data,
              panic |-> "Data length does not match program output buffer and temp buffer data length"]
        ELSE [data |-> CopyFromSlice(data, data_start_idx, new_data),
              panic |-> "none"]

(***************************************************************************)
(* kernel::ProcessControlBlock                                             *)
(***************************************************************************)
\* ProcessControlBlock::new with the temp region placed as if there were no input
\* region
PcbNew_TempSkipsInput(program_info, mem_start_address, mem_end_address) ==
    [program_counter |-> 0,
     registers |-> [r \in 0..(NUM_REGISTERS - 1) |-> 0],
     state |-> "Ready",
     id |-> program_info.id,
     priority |-> program_info.priority,
     mem_start_address |-> mem_start_address,
     mem_in_start_address |-> mem_start_address + program_info.instruction_buffer_size,
     mem_out_start_address |-> mem_start_address + program_info.instruction_buffer_size
                               + program_info.in_buffer_size,
     mem_temp_start_address |-> mem_start_address + program_info.instruction_buffer_size
                                + program_info.out_buffer_size,
     mem_end_address |-> mem_end_address,
     turnaround_time_is_recording |-> FALSE,
     burst_count |-> 0,
     burst_time_is_recording |-> FALSE]

\* ProcessControlBlock::new
PcbNew(program_info, mem_start_address, mem_end_address) ==
    [program_counter |-> 0,
     registers |-> [r \in 0..(NUM_REGISTERS - 1) |-> 0],
     state |-> "Ready",
     id |-> program_info.id,
     priority |-> program_info.priority,
     mem_start_address |-> mem_start_address,
     mem_in_start_address |-> mem_start_address + program_info.instruction_buffer_size,
     mem_out_start_address |-> mem_start_address + program_info.instruction_buffer_size
                               + program_info.in_buffer_size,
     mem_temp_start_address |-> mem_start_address + program_info.instruction_buffer_size
                                + program_info.in_buffer_size
                                + program_info.out_buffer_size,
     mem_end_address |-> mem_end_address,
     turnaround_time_is_recording |-> FALSE,
     burst_count |-> 0,
     burst_time_is_recording |-> FALSE]

\* ProcessControlBlock::start_record_turnaround_time
PcbStartRecordTurnaroundTime(pcb) ==
    [pcb EXCEPT !.turnaround_time_is_recording = TRUE]

(***************************************************************************)
(* kernel::Memory                                                          *)
(***************************************************************************)
ZeroMemory == Zeros(MEMORY_SIZE)

\* Memory::get_remaining_memory
GetRemainingMemory(current_data_idx) == MEMORY_SIZE - current_data_idx

\* the bounds check of Memory::read_block_from: the panic message, or "none"
ReadBlockPanic(start_address, end_address) ==
    IF start_address >= MEMORY_SIZE \/ end_address >= MEMORY_SIZE
    THEN "Out of bounds memory access. Start or end address is greater than memory size"
    ELSE IF start_address > end_address
    THEN "Invalid memory range. Start address is greater than end address"
    ELSE "none"

\* Memory::read_block_from, when the bounds check passes
ReadBlockFrom(data, start_address, end_address) == Slice(data, start_address, end_address)

\* Memory::write_block_to, when the bounds check passes
WriteBlockTo(data, address, block) == CopyFromSlice(data, address, block)

\* the bounds check of Memory::write_block_to
WriteBlockPanic(address, block) ==
    IF address + Len(block) > MEMORY_SIZE THEN "Out of bounds memory access" ELSE "none"

\* where Memory::create_process ends the new process's region
CreateEndAddress(start_address, program_data) == start_address + Len(program_data)

\* where Memory::create_process leaves the bump pointer
NextDataIdx(start_address, end_address) == end_address

\* Memory::create_process on the memory m = [pcb_map, data, current_data_idx, heap, panic]
MemCreateProcess(m, program_info, program_data) ==
    LET start_address == m.current_data_idx
        end_address == CreateEndAddress(start_address, program_data)
        pcb == PcbStartRecordTurnaroundTime(PcbNew(program_info, start_address, end_address))
        handle == Len(m.heap) + 1
    IN  IF WriteBlockPanic(start_address, program_data) # "none"
        THEN [m EXCEPT !.current_data_idx = NextDataIdx(start_address, end_address),
                       !.panic = WriteBlockPanic(start_address, program_data)]
        ELSE [m EXCEPT !.current_data_idx = NextDataIdx(start_address, end_address),
                       !.data = WriteBlockTo(m.data, start_address, program_data),
                       !.heap = Append(m.heap, pcb),
                       !.pcb_map = MapInsert(m.pcb_map, program_info.id, handle)]

\* Memory::core_dump
MemCoreDump(m) ==
    [m EXCEPT !.pcb_map = EmptyMap,
              !.data = WriteBlockTo(m.data, 0, ZeroMemory),
              !.current_data_idx = 0]

\* the Memory of the current state, as one value
MemNow ==
    [pcb_map |-> mem_pcb_map, data |-> mem_data,
     current_data_idx |-> mem_current_data_idx, heap |-> pcb_heap, panic |-> "none"]

(***************************************************************************)
(* kernel::LongTermScheduler.  The scheduler and the Memory it locks are   *)
(* one value l = [program_queue, unload_list, m]; the Disk is read through *)
(* the state variables (step only borrows it).                             *)
(***************************************************************************)
LtsNow == [program_queue |-> program_queue, unload_list |-> unload_list, m |-> MemNow]

\* the admission test with the comparison made non-strict: a program exactly as
\* long as the remaining memory is refused
NotEnoughMemory_Strict(remaining, len) == remaining <= len

\* the admission test of LongTermScheduler::step: the program does not fit
NotEnoughMemory(remaining, len) == remaining < len

\* the refusal with program_queue.pop_front() moved before the test
StepNotEnoughMemory_Pops(l) ==
    [l |-> [l EXCEPT !.program_queue = Tail(l.program_queue)],
     ok |-> FALSE, err |-> "Not enough memory to load program", id |-> 0]

\* what LongTermScheduler::step returns when the program does not fit
StepNotEnoughMemory(l) ==
    [l |-> l, ok |-> FALSE, err |-> "Not enough memory to load program", id |-> 0]

\* LongTermScheduler::step: the scheduler after the call and what it returned
LtsStep(l) ==
    IF l.program_queue = << >>
    THEN [l |-> l, ok |-> FALSE, err |-> "No programs in queue", id |-> 0]
    ELSE LET program_id == Head(l.program_queue)
         IN  IF program_id \notin DOMAIN disk_program_map
             THEN [l |-> [l EXCEPT !.m.panic = "Program not found"],
                   ok |-> FALSE, err |-> "panic", id |-> 0]
             ELSE LET program_info == disk_program_map[program_id]
                      program_data == DiskReadDataFor(disk_data, program_info)
                  IN  IF NotEnoughMemory(GetRemainingMemory(l.m.current_data_idx),
                                         Len(program_data))
                      THEN StepNotEnoughMemory(l)
                      ELSE [l |-> [program_queue |-> Tail(l.program_queue),
                                   unload_list |-> Append(l.unload_list, program_id),
                                   m |-> MemCreateProcess(l.m, program_info, program_data)],
                            ok |-> TRUE, err |-> "none", id |-> program_id]

\* the loop with `break` turned into skipping the program that did not fit
RECURSIVE BatchStepLoop_Skips(_, _)
BatchStepLoop_Skips(l, process_ids) ==
    IF l.program_queue = << >>
    THEN [l |-> l, process_ids |-> process_ids]
    ELSE LET r == LtsStep(l)
         IN  IF r.ok
             THEN BatchStepLoop_Skips(r.l, Append(process_ids, r.id))
             ELSE BatchStepLoop_Skips([r.l EXCEPT !.program_queue = Tail(r.l.program_queue)],
                                      process_ids)

\* the loop of LongTermScheduler::batch_step
RECURSIVE BatchStepLoop(_, _)
BatchStepLoop(l, process_ids) ==
    IF l.program_queue = << >>
    THEN [l |-> l, process_ids |-> process_ids]
    ELSE LET r == LtsStep(l)
         IN  IF r.ok
             THEN BatchStepLoop(r.l, Append(process_ids, r.id))
             ELSE [l |-> r.l, process_ids |-> process_ids]

\* LongTermScheduler::batch_step
LtsBatchStep(l) == BatchStepLoop(l, << >>)

\* the loop of LongTermScheduler::unload_all over the rest of unload_list:
\* the Disk's word pool after it, and the panic that cut it short, if any
RECURSIVE UnloadLoop(_, _, _)
UnloadLoop(m, rest, data) ==
    IF rest = << >>
    THEN [data |-> data, panic |-> "none"]
    ELSE LET program_id == Head(rest)
         IN  IF program_id \notin DOMAIN m.pcb_map
             THEN [data |-> data, panic |-> "No process found for id"]
             ELSE LET pcb == m.heap[m.pcb_map[program_id]]
                      p == ReadBlockPanic(pcb.mem_out_start_address, pcb.mem_end_address)
                  IN  IF p # "none"
                      THEN [data |-> data, panic |-> p]
                      ELSE LET u == DiskUpdateProgram(data, disk_program_map[program_id],
                                        ReadBlockFrom(m.data, pcb.mem_out_start_address,
                                                      pcb.mem_end_address))
                           IN  IF u.panic # "none"
                               THEN u
                               ELSE UnloadLoop(m, Tail(rest), u.data)

(***************************************************************************)
(* Programs and the Disk the loader leaves                                 *)
(***************************************************************************)
\* the word with the given 16-bit halves
Word(hi, lo) == IF hi >= 32768 THEN (hi - 65536) * 65536 + lo ELSE hi * 65536 + lo

\* 0x92000000: instruction type 10, opcode 0x12
HLT_WORD == Word(37376, 0)
\* 0x13000000: opcode 0x13
NOP_WORD == Word(4864, 0)

\* the image [instructions | input | output | temp] of a program
\* p = [id, priority, code, in_buffer_size, out_buffer_size, temp_buffer_size]
Image(p) ==
    p.code \o [k \in 1..(p.in_buffer_size + p.out_buffer_size + p.temp_buffer_size)
                 |-> 1 + ((p.id + k) % 5)]

\* the Disk after the loader wrote the programs of the sequence progs, in order
RECURSIVE DiskWith(_)
DiskWith(progs) ==
    IF progs = << >>
    THEN DiskNew
    ELSE LET p == progs[Len(progs)]
         IN  DiskWriteProgram(DiskWith(SubSeq(progs, 1, Len(progs) - 1)),
                              p.id, p.priority, Len(p.code), p.in_buffer_size,
                              p.out_buffer_size, p.temp_buffer_size, Image(p))

\* a program of `size` words in all, shaped like the schedulers' test programs
\* (write_program(id, 1, size - 3, 1, 1, 1, ..) and write_program(id, 1, 1, 1, 1, 2, ..))
TestProgram(id, size) ==
    [id |-> id, priority |-> id, code |-> <<HLT_WORD>>,
     in_buffer_size |-> size - 4, out_buffer_size |-> 1, temp_buffer_size |-> 2]

\* the image sizes the long-term scheduler is exercised with: two programs that
\* fill Memory exactly, one that fills it alone, one that leaves too little for
\* the next, one larger than Memory
LtsSizeLists ==
    {<<1019, 5>>, <<1024, 5>>, <<1020, 5>>, <<5, 1025>>}

TypeOfLastCall == [op : STRING, ok : BOOLEAN, err : STRING, ids : Seq(Nat)]

\* the state Driver::new leaves, with the programs progs on the Disk, the
\* three threads at the given positions ("off": the thread does not exist) and
\* the given PCBs allocated
InitKernelHeap(progs, alg, drv, disp, cpu, heap) ==
    /\ LET d == DiskWith(progs)
       IN  /\ disk_program_map = d.program_map
           /\ disk_data = d.data
           /\ disk_current_data_idx = d.current_data_idx
    \* Memory::new
    /\ mem_pcb_map = EmptyMap
    /\ mem_data = ZeroMemory
    /\ mem_current_data_idx = 0
    /\ pcb_heap = heap
    \* LongTermScheduler::new
    /\ program_queue = << >>
    /\ unload_list = << >>
    /\ last_call = [op |-> "new", ok |-> TRUE, err |-> "none", ids |-> << >>]
    /\ enqueued_log = << >>
    /\ admitted_log = << >>
    /\ writes_made = 0
    /\ panicked = "none"
    \* ShortTermSchedulerResources::new
    /\ scheduling_alg = alg
    /\ ready_queue = << >>
    /\ current_pcb = 0
    /\ all_procs_are_finished = TRUE
    \* CpuResources::new
    /\ cpu_cache = << >>
    /\ cpu_program_counter = 0
    /\ cpu_mem_start_address = 0
    /\ cpu_registers = [r \in 0..(NUM_REGISTERS - 1) |-> 0]
    /\ proc_should_interrupt = TRUE
    /\ proc_interrupt_type = "Terminated"
    \* Cpu::new: the DMA channel is empty, the DMA thread waits for a command
    /\ dma_command = [kind |-> "None", address |-> 0, value |-> 0]
    /\ dma_response = [ready |-> FALSE, value |-> 0]
    /\ dma_pc = IF cpu = "off" THEN "off" ELSE "idle"
    /\ drv_pc = drv
    /\ drv_process_ids = << >>
    /\ process_stats = << >>
    /\ disp_pc = disp
    /\ disp_in_pcb = 0
    /\ disp_out_pcb = 0
    /\ disp_out_pcb_state = "Terminated"
    /\ cpu_pc = cpu
    /\ scheduled_log = << >>
    /\ loaded_log = << >>
    /\ cpu_poisoned = FALSE
    /\ mem_poisoned = FALSE
    /\ dispatch_should_terminate = FALSE
    /\ cycle_should_terminate = FALSE
    /\ dma_should_terminate = FALSE
    /\ cpu_drop_pc = "alive"

\* the state Driver::new leaves: no PCB exists
InitKernel(progs, alg, drv, disp, cpu) == InitKernelHeap(progs, alg, drv, disp, cpu, << >>)

\* a LongTermScheduler over a Disk and a Memory, as its tests build it
InitLTS ==
    \E sizes \in LtsSizeLists :
        InitKernel([i \in 1..Len(sizes) |-> TestProgram(i, sizes[i])],
                   "Priority", "off", "off", "off")

(***************************************************************************)
(* The long-term scheduler's operations, called one after the other        *)
(***************************************************************************)
SetLts(l) ==
    /\ program_queue' = l.program_queue
    /\ unload_list' = l.unload_list
    /\ mem_pcb_map' = l.m.pcb_map
    /\ mem_data' = l.m.data
    /\ mem_current_data_idx' = l.m.current_data_idx
    /\ pcb_heap' = l.m.heap

\* the ids on the Disk, in ascending order
RECURSIVE SortedIds(_)
SortedIds(ids) ==
    IF ids = {} THEN << >>
    ELSE LET least == CHOOSE a \in ids : \A b \in ids : a <= b
         IN  <<least>> \o SortedIds(ids \ {least})

\* the id lists a caller passes to enqueue_programs: one id of the Disk (any of
\* them, again and again), or all of them as the Driver does
IdLists ==
    {<<a>> : a \in DOMAIN disk_program_map} \cup {SortedIds(DOMAIN disk_program_map)}

\* LongTermScheduler::enqueue_programs
EnqueuePrograms ==
    /\ panicked = "none"
    /\ UNCHANGED sysVars
    /\ \E program_ids \in IdLists :
          /\ Len(enqueued_log) + Len(program_ids) <= MaxEnqueued
          /\ program_queue' = program_queue \o program_ids
          /\ enqueued_log' = enqueued_log \o program_ids
          /\ last_call' = [op |-> "enqueue_programs", ok |-> TRUE, err |-> "none",
                           ids |-> program_ids]
    /\ UNCHANGED <<diskVars, memVars, unload_list, admitted_log, writes_made, panicked>>

\* a call of LongTermScheduler::step
Step ==
    /\ panicked = "none"
    /\ UNCHANGED sysVars
    /\ LET r == LtsStep(LtsNow)
       IN  /\ SetLts(r.l)
           /\ panicked' = r.l.m.panic
           /\ last_call' = [op |-> "step", ok |-> r.ok, err |-> r.err,
                            ids |-> IF r.ok THEN <<r.id>> ELSE << >>]
           /\ admitted_log' = IF r.ok THEN Append(admitted_log, r.id) ELSE admitted_log
    /\ UNCHANGED <<diskVars, enqueued_log, writes_made>>

\* a call of LongTermScheduler::batch_step
BatchStep ==
    /\ panicked = "none"
    /\ UNCHANGED sysVars
    /\ LET r == LtsBatchStep(LtsNow)
       IN  /\ SetLts(r.l)
           /\ panicked' = r.l.m.panic
           /\ last_call' = [op |-> "batch_step", ok |-> TRUE, err |-> "none",
                            ids |-> r.process_ids]
           /\ admitted_log' = admitted_log \o r.process_ids
    /\ UNCHANGED <<diskVars, enqueued_log, writes_made>>

\* a call of LongTermScheduler::unload_all
UnloadAll ==
    /\ panicked = "none"
    /\ UNCHANGED sysVars
    /\ LET u == UnloadLoop(MemNow, unload_list, disk_data)
       IN  /\ disk_data' = u.data
           /\ panicked' = u.panic
           /\ IF u.panic # "none"
              THEN UNCHANGED <<memVars, ltsVars>>
              ELSE SetLts([program_queue |-> program_queue,
                           unload_list |-> << >>,
                           m |-> MemCoreDump(MemNow)])
           /\ last_call' = [op |-> "unload_all", ok |-> u.panic = "none", err |-> u.panic,
                            ids |-> << >>]
    /\ UNCHANGED <<disk_program_map, disk_current_data_idx, enqueued_log, admitted_log,
                   writes_made>>

\* the addresses a process's stores are tried at: the boundaries of the regions
RegionAddresses ==
    UNION {{pcb_heap[mem_pcb_map[id]].mem_in_start_address,
            pcb_heap[mem_pcb_map[id]].mem_out_start_address,
            pcb_heap[mem_pcb_map[id]].mem_temp_start_address} : id \in DOMAIN mem_pcb_map}

\* Memory::write_to, called on the shared Memory as the schedulers' tests do
WriteTo ==
    /\ panicked = "none"
    /\ UNCHANGED sysVars
    /\ writes_made < MaxWrites
    /\ \E address \in RegionAddresses, value \in {7} :
          /\ IF address >= MEMORY_SIZE
             THEN /\ panicked' = "Out of bounds memory access"
                  /\ UNCHANGED mem_data
             ELSE /\ mem_data' = SetAt(mem_data, address, value)
                  /\ UNCHANGED panicked
    /\ writes_made' = writes_made + 1
    /\ UNCHANGED <<diskVars, mem_pcb_map, mem_current_data_idx, pcb_heap, ltsVars,
                   last_call, enqueued_log, admitted_log>>

NextLTS == EnqueuePrograms \/ Step \/ BatchStep \/ UnloadAll \/ WriteTo

SpecLTS == InitLTS /\ [][NextLTS]_vars

(***************************************************************************)
(* kernel::Cpu: decoding and executing one instruction                     *)
(***************************************************************************)
\* extract_bits without the shift to the left: the bits before start_index
\* stay in the result
ExtractBits_NoShiftLeft(instruction, start_index, length) ==
    LET hi == (instruction \div 65536) % 65536
        lo == instruction % 65536
    IN  IF start_index + length <= 16
        THEN hi \div (2 ^ (16 - start_index - length))
        ELSE IF start_index >= 16
        THEN lo \div (2 ^ (32 - start_index - length))
        ELSE ((hi % (2 ^ (16 - start_index))) * 65536 + lo)
                 \div (2 ^ (32 - start_index - length))

\* Cpu::extract_bits: (instruction << start_index) >> (32 - length), on the
\* unsigned value of the word, computed from its 16-bit halves
ExtractBits(instruction, start_index, length) ==
    LET hi == (instruction \div 65536) % 65536
        lo == instruction % 65536
    IN  IF start_index = 0
        THEN hi \div (2 ^ (16 - length))
        ELSE IF start_index >= 16
        THEN (lo % (2 ^ (32 - start_index))) \div (2 ^ (32 - start_index - length))
        ELSE ((hi % (2 ^ (16 - start_index))) * 65536 + lo)
                 \div (2 ^ (32 - start_index - length))

\* Cpu::decode
Decode(instruction) ==
    LET instr_type == ExtractBits(instruction, 0, 2)
    IN  [instr_type |-> instr_type,
         opcode |-> ExtractBits(instruction, 2, 6),
         reg_1_num |-> IF instr_type = 2 THEN 0 ELSE ExtractBits(instruction, 8, 4),
         reg_2_num |-> IF instr_type = 2 THEN 0 ELSE ExtractBits(instruction, 12, 4),
         reg_3_num |-> IF instr_type = 0 THEN ExtractBits(instruction, 16, 4) ELSE 0,
         address |-> IF instr_type = 2 THEN ExtractBits(instruction, 8, 16)
                     ELSE IF instr_type = 0 THEN 0
                     ELSE ExtractBits(instruction, 16, 16)]

\* a register's content taken for a word index, not for the byte address it is
AsUsizeDiv4_NotDivided(word) == IF word >= 0 THEN word ELSE word + 2147483647 + 1

\* a register's content `as usize`, divided by 4: the content is a word, the
\* integer that stands for it may be negative
AsUsizeDiv4(word) == IF word >= 0 THEN word \div 4 ELSE (word \div 4) + 1073741824

\* the bounds check with the last word of Memory refused as well
MemAccessPanics_Tight(address) == address >= MEMORY_SIZE - 1

\* the bounds check of Memory::read_from and Memory::write_to: the access panics
MemAccessPanics(address) == address >= MEMORY_SIZE

\* the logical word index taken for the physical one
GetPhysicalAddressFor_NoBase(mem_start_address, logical_address) == logical_address

\* Cpu::get_physical_address_for
GetPhysicalAddressFor(mem_start_address, logical_address) ==
    logical_address + mem_start_address

\* Cpu::store on the CPU c: Memory::write_to under the Memory's write lock,
\* which a panic of write_to poisons
CpuStore(c, address_div_4, value) ==
    LET address == GetPhysicalAddressFor(c.mem_start_address, address_div_4)
    IN  IF c.memory_poisoned
        THEN [c EXCEPT !.fault = "PoisonError"]
        ELSE IF MemAccessPanics(address)
        THEN [c EXCEPT !.fault = "Out of bounds memory access", !.memory_poisoned = TRUE]
        ELSE [c EXCEPT !.memory = SetAt(c.memory, address, value)]

\* Cpu::fetch on the CPU c under the Memory's read lock, then set_reg(reg_num, value)
CpuFetchInto(c, address_div_4, reg_num) ==
    LET address == GetPhysicalAddressFor(c.mem_start_address, address_div_4)
    IN  IF c.memory_poisoned
        THEN [c EXCEPT !.fault = "PoisonError"]
        ELSE IF MemAccessPanics(address)
        THEN [c EXCEPT !.fault = "Out of bounds memory access. Address is greater than memory size"]
        ELSE [c EXCEPT !.registers[reg_num] = At(c.memory, address)]

(* u32 arithmetic.  A word w stands for the u32 Hi16(w) * 65536 + Lo16(w); the
   integer that stands for a word of 2^31 or more is negative. *)
Hi16(w) == (w \div 65536) % 65536
Lo16(w) == w % 65536

\* a < b as u32
U32Less(a, b) ==
    IF (a >= 0) = (b >= 0) THEN a < b ELSE a >= 0

\* a + b: the wrapped sum, and whether the sum is 2^32 or more
U32Add(a, b) ==
    LET lo == Lo16(a) + Lo16(b)
        hi == Hi16(a) + Hi16(b) + (lo \div 65536)
    IN  [value |-> Word(hi % 65536, lo % 65536), overflow |-> hi >= 65536]

\* a - b that stops at zero
U32Sub_Saturating(a, b) ==
    IF U32Less(a, b) THEN [value |-> 0, overflow |-> FALSE]
    ELSE [value |-> a - b, overflow |-> FALSE]

\* a - b: the wrapped difference, and whether a < b
U32Sub(a, b) ==
    LET lo == Lo16(a) - Lo16(b)
        hi == Hi16(a) - Hi16(b) - (IF lo < 0 THEN 1 ELSE 0)
    IN  [value |-> Word(hi % 65536, lo % 65536), overflow |-> hi < 0]

\* a * b, by the bytes of a and b: the wrapped product, and whether the product
\* is 2^32 or more
U32Mul(a, b) ==
    LET byte(w, k) == IF k < 2 THEN (Lo16(w) \div (256 ^ k)) % 256
                      ELSE (Hi16(w) \div (256 ^ (k - 2))) % 256
        column(k) == LET pairs == {i \in 0..3 : k - i \in 0..3}
                         cell[i \in 0..3] ==
                             IF i \in pairs THEN byte(a, i) * byte(b, k - i) ELSE 0
                     IN  cell[0] + cell[1] + cell[2] + cell[3]
        s0 == column(0)
        s1 == column(1) + (s0 \div 256)
        s2 == column(2) + (s1 \div 256)
        s3 == column(3) + (s2 \div 256)
        s4 == column(4) + (s3 \div 256)
        s5 == column(5) + (s4 \div 256)
        s6 == column(6) + (s5 \div 256)
    IN  [value |-> Word((s3 % 256) * 256 + (s2 % 256), (s1 % 256) * 256 + (s0 % 256)),
         overflow |-> s4 # 0 \/ s5 # 0 \/ s6 # 0]

\* a / b for b # 0, as u32
U32Div(a, b) ==
    IF b < 0 THEN (IF a < 0 /\ a >= b THEN 1 ELSE 0)
    ELSE IF a >= 0 THEN a \div b
    ELSE IF b = 1 THEN a
    ELSE \* a = 2^31 + rest
         LET rest == (a + 2147483647) + 1
             q0 == IF (2147483647 % b) = b - 1 THEN (2147483647 \div b) + 1
                   ELSE 2147483647 \div b
             r0 == IF (2147483647 % b) = b - 1 THEN 0 ELSE (2147483647 % b) + 1
             r1 == rest % b
         IN  q0 + (rest \div b) + (IF r0 >= b - r1 THEN 1 ELSE 0)

\* a & b and a | b on words of `bits` bits
RECURSIVE BitAnd(_, _, _)
BitAnd(a, b, bits) ==
    IF bits = 0 THEN 0
    ELSE 2 * BitAnd(a \div 2, b \div 2, bits - 1) + (IF a % 2 = 1 /\ b % 2 = 1 THEN 1 ELSE 0)

RECURSIVE BitOr(_, _, _)
BitOr(a, b, bits) ==
    IF bits = 0 THEN 0
    ELSE 2 * BitOr(a \div 2, b \div 2, bits - 1) + (IF a % 2 = 1 \/ b % 2 = 1 THEN 1 ELSE 0)

U32And(a, b) == Word(BitAnd(Hi16(a), Hi16(b), 16), BitAnd(Lo16(a), Lo16(b), 16))
U32Or(a, b) == Word(BitOr(Hi16(a), Hi16(b), 16), BitOr(Lo16(a), Lo16(b), 16))

\* set_reg(reg_num, r.value) for the result r of +, - or *: where the result
\* does not fit a u32, a build with overflow checks panics and a build without
\* them stores the wrapped value; c.overflowed records that the two differ
SetRegChecked(c, reg_num, r) ==
    [c EXCEPT !.registers[reg_num] = r.value, !.overflowed = r.overflow]

\* Cpu::execute_arithmetic: MOV, ADD, SUB, MUL, DIV, AND, OR, SLT
ExecuteArithmetic(c, instruction) ==
    LET reg_1 == c.registers[instruction.reg_1_num]
        reg_2 == c.registers[instruction.reg_2_num]
    IN  CASE instruction.opcode = 4 ->
                 [c EXCEPT !.registers[instruction.reg_1_num] = reg_2]
          [] instruction.opcode = 5 ->
                 SetRegChecked(c, instruction.reg_3_num, U32Add(reg_1, reg_2))
          [] instruction.opcode = 6 ->
                 SetRegChecked(c, instruction.reg_3_num, U32Sub(reg_1, reg_2))
          [] instruction.opcode = 7 ->
                 SetRegChecked(c, instruction.reg_3_num, U32Mul(reg_1, reg_2))
          [] instruction.opcode = 8 ->
                 IF reg_2 = 0
                 THEN [c EXCEPT !.fault = "attempt to divide by zero"]
                 ELSE [c EXCEPT !.registers[instruction.reg_3_num] = U32Div(reg_1, reg_2)]
          [] instruction.opcode = 9 ->
                 [c EXCEPT !.registers[instruction.reg_3_num] = U32And(reg_1, reg_2)]
          [] instruction.opcode = 10 ->
                 [c EXCEPT !.registers[instruction.reg_3_num] = U32Or(reg_1, reg_2)]
          [] instruction.opcode = 16 ->
                 [c EXCEPT !.registers[instruction.reg_3_num] =
                     IF U32Less(reg_1, reg_2) THEN 1 ELSE 0]
          [] OTHER ->
                 [c EXCEPT !.fault = "Execute error, invalid opcode for arithmetic instruction"]

\* Cpu::execute_cond_branch_immediate: ST, LW, MOVI, ADDI, MULI, DIVI, LDI, SLTI
\* and the branches (a register is a u32: none is below zero)
ExecuteCondBranchImmediate(c, instruction) ==
    LET reg_1 == c.registers[instruction.reg_1_num]
        reg_2 == c.registers[instruction.reg_2_num]
        branched == [c EXCEPT !.program_counter = instruction.address \div 4]
    IN  CASE instruction.opcode = 2 ->
                 IF instruction.reg_2_num = 0
                 THEN CpuStore(c, instruction.address \div 4, reg_1)
                 ELSE CpuStore(c, AsUsizeDiv4(reg_2), reg_1)
          [] instruction.opcode = 3 ->
                 IF instruction.reg_1_num = 0
                 THEN CpuFetchInto(c, instruction.address \div 4, instruction.reg_2_num)
                 ELSE CpuFetchInto(c, AsUsizeDiv4(reg_1), instruction.reg_2_num)
          [] instruction.opcode \in {11, 15} ->
                 [c EXCEPT !.registers[instruction.reg_2_num] = instruction.address]
          [] instruction.opcode = 12 ->
                 SetRegChecked(c, instruction.reg_2_num, U32Add(reg_2, instruction.address))
          [] instruction.opcode = 13 ->
                 SetRegChecked(c, instruction.reg_2_num, U32Mul(reg_2, instruction.address))
          [] instruction.opcode = 14 ->
                 IF instruction.address = 0
                 THEN [c EXCEPT !.fault = "attempt to divide by zero"]
                 ELSE [c EXCEPT !.registers[instruction.reg_2_num] =
                          U32Div(reg_2, instruction.address)]
          [] instruction.opcode = 17 ->
                 [c EXCEPT !.registers[instruction.reg_1_num] =
                     IF U32Less(reg_2, instruction.address) THEN 1 ELSE 0]
          [] instruction.opcode = 21 -> IF reg_1 = reg_2 THEN branched ELSE c
          [] instruction.opcode = 22 -> IF reg_1 # reg_2 THEN branched ELSE c
          [] instruction.opcode = 23 -> IF reg_1 = 0 THEN branched ELSE c
          [] instruction.opcode = 24 -> IF reg_1 # 0 THEN branched ELSE c
          [] instruction.opcode = 25 -> IF reg_1 # 0 THEN branched ELSE c
          [] instruction.opcode = 26 -> c
          [] OTHER ->
                 [c EXCEPT !.fault = "Execute error, invalid opcode for conditional branch or immediate instruction"]

\* execute_io with the access made by the CPU thread itself, as LW and ST are
ExecuteIo_Direct(c, instruction) ==
    LET address_div_4 == IF instruction.reg_2_num = 0
                         THEN instruction.address \div 4
                         ELSE AsUsizeDiv4(c.registers[instruction.reg_2_num])
    IN  CASE instruction.opcode = 0 ->
                 CpuFetchInto(c, address_div_4, instruction.reg_1_num)
          [] instruction.opcode = 1 ->
                 CpuStore(c, address_div_4, c.registers[instruction.reg_1_num])
          [] OTHER ->
                 [c EXCEPT !.fault = "Execute error, invalid opcode for I/O jump instruction"]

\* Cpu::execute_io up to the command being sent on the DMA channel
ExecuteIo(c, instruction) ==
    LET address == IF instruction.reg_2_num = 0
                   THEN instruction.address \div 4 + c.mem_start_address
                   ELSE AsUsizeDiv4(c.registers[instruction.reg_2_num]) + c.mem_start_address
    IN  CASE instruction.opcode = 0 ->
                 [c EXCEPT !.dma = [kind |-> "Fetch", address |-> address, value |-> 0]]
          [] instruction.opcode = 1 ->
                 [c EXCEPT !.dma = [kind |-> "Store", address |-> address,
                                    value |-> c.registers[instruction.reg_1_num]]]
          [] OTHER ->
                 [c EXCEPT !.fault = "Execute error, invalid opcode for I/O jump instruction"]

\* execute_uncond_jump with HLT raising Ready, as a time slice that ran out would
ExecuteUncondJump_HltRaisesReady(c, instruction) ==
    CASE instruction.opcode = 18 ->
             [c EXCEPT !.interrupt_type = "Ready", !.should_interrupt = TRUE]
      [] instruction.opcode = 20 ->
             [c EXCEPT !.program_counter = instruction.address \div 4]
      [] OTHER ->
             [c EXCEPT !.fault = "Execute error, invalid opcode for unconditional jump instruction"]

\* Cpu::execute_uncond_jump: HLT and JMP
ExecuteUncondJump(c, instruction) ==
    CASE instruction.opcode = 18 ->
             [c EXCEPT !.interrupt_type = "Terminated", !.should_interrupt = TRUE]
      [] instruction.opcode = 20 ->
             [c EXCEPT !.program_counter = instruction.address \div 4]
      [] OTHER ->
             [c EXCEPT !.fault = "Execute error, invalid opcode for unconditional jump instruction"]

\* Cpu::execute on the CPU c = [program_counter, registers, mem_start_address,
\* memory, memory_poisoned, should_interrupt, interrupt_type, dma, fault,
\* overflowed]
Execute(c, instruction) ==
    IF instruction.opcode = 19
    THEN c
    ELSE CASE instruction.instr_type = 0 -> ExecuteArithmetic(c, instruction)
           [] instruction.instr_type = 1 -> ExecuteCondBranchImmediate(c, instruction)
           [] instruction.instr_type = 2 -> ExecuteUncondJump(c, instruction)
           [] OTHER -> ExecuteIo(c, instruction)

(***************************************************************************)
(* kernel::ShortTermScheduler: the ready queue                             *)
(***************************************************************************)
\* schedule_process without `*all_procs_are_finished = false`
IdleAfterSchedule_NotCleared(flag) == flag

\* the flag all_procs_are_finished as schedule_process leaves it
IdleAfterSchedule(flag) == FALSE

\* dispatch without its last step: the flag is left as it is
IdleAfterDispatch_NotRaised(flag, queue) == flag

\* dispatch raising the flag whatever the ready queue holds
IdleAfterDispatch_AlwaysRaised(flag, queue) == TRUE

\* the flag all_procs_are_finished as dispatch leaves it, the ready queue being
\* as given after the outgoing PCB was disposed of
IdleAfterDispatch(flag, queue) == IF queue = << >> THEN TRUE ELSE flag

\* pop() taking the back of a FifoQueue (pop_back for pop_front)
PopCandidates_FifoFromBack(alg, queue) ==
    IF alg = "Fifo"
    THEN {i \in DOMAIN queue : i = Len(queue)}
    ELSE {i \in DOMAIN queue :
            \A j \in DOMAIN queue : pcb_heap[queue[j]].priority <= pcb_heap[queue[i]].priority}

\* pop() of a PriorityQueue whose Ord compares the priorities the other way round
PopCandidates_LeastPriority(alg, queue) ==
    IF alg = "Fifo"
    THEN {i \in DOMAIN queue : i = 1}
    ELSE {i \in DOMAIN queue :
            \A j \in DOMAIN queue : pcb_heap[queue[j]].priority >= pcb_heap[queue[i]].priority}

\* the positions of ready_queue that pop() may return: the front of a FifoQueue,
\* an entry of greatest priority of a PriorityQueue (a BinaryHeap leaves the
\* choice among equal priorities to its layout)
PopCandidates(alg, queue) ==
    IF alg = "Fifo"
    THEN {i \in DOMAIN queue : i = 1}
    ELSE {i \in DOMAIN queue :
            \A j \in DOMAIN queue : pcb_heap[queue[j]].priority <= pcb_heap[queue[i]].priority}

\* the sequence s without its i-th element
RemoveAt(s, i) == SubSeq(s, 1, i - 1) \o SubSeq(s, i + 1, Len(s))

(***************************************************************************)
(* The programs the Driver is run with                                     *)
(***************************************************************************)
\* how many programs the loader puts on the Disk, at most
MaxPrograms == 3

\* 0x94000800: instruction type 10, opcode 0x14, address 8
JMP_8_WORD == Word(37888, 2048)

\* the instruction word of type 01 (conditional branch and immediate) or 11
\* (I/O): 2 bits of type, 6 of opcode, two registers of 4 bits, 16 of address
Instr(instr_type, opcode, reg_1_num, reg_2_num, address) ==
    Word(instr_type * 16384 + opcode * 256 + reg_1_num * 16 + reg_2_num, address)

\* a program of `size` words in all with the given instructions
SysProgram(id, priority, code, size) ==
    [id |-> id, priority |-> priority, code |-> code,
     in_buffer_size |-> size - Len(code) - 3, out_buffer_size |-> 1, temp_buffer_size |-> 2]

\* the code of the small programs: all of them halt (RD r1 <- word 2 of the
\* program, which is its first input word)
SmallCode(id) ==
    IF id % 3 = 0 THEN <<JMP_8_WORD, NOP_WORD, HLT_WORD>>
    ELSE IF id % 3 = 1 THEN <<HLT_WORD>>
    ELSE <<Instr(3, 0, 1, 0, 8), HLT_WORD>>

\* the program files: small programs that share one batch; a program that takes
\* nearly all of Memory followed by small ones, which wait for the next batch
SysCatalogs ==
    {[i \in 1..2 |-> SysProgram(i, 1, SmallCode(i), 8)],
     [i \in 1..MaxPrograms |->
        IF i = 1 THEN SysProgram(1, 1, <<NOP_WORD, HLT_WORD>>, 1020)
        ELSE SysProgram(i, i, SmallCode(i), 8)]}

\* Driver::new, then Driver::start up to the programs being on the Disk
InitSys ==
    \E progs \in SysCatalogs, alg \in {"Fifo", "Priority"} :
        InitKernel(progs, alg, "enqueue", "top", "top")

(***************************************************************************)
(* The Driver thread: Driver::start, then the Driver is dropped            *)
(***************************************************************************)
\* self.lts.enqueue_programs(program_ids), with every id the loader returned
DrvEnqueue ==
    /\ drv_pc = "enqueue"
    /\ LET program_ids == [i \in 1..Cardinality(DOMAIN disk_program_map) |->
                              SortedIds(DOMAIN disk_program_map)[i]]
       IN  /\ program_queue' = program_queue \o program_ids
           /\ enqueued_log' = enqueued_log \o program_ids
           /\ last_call' = [op |-> "enqueue_programs", ok |-> TRUE, err |-> "none",
                            ids |-> program_ids]
    /\ drv_pc' = "loop"
    /\ UNCHANGED <<diskVars, memVars, unload_list, admitted_log, writes_made, panicked>>
    /\ UNCHANGED <<stsVars, cpuVars, drv_process_ids, process_stats, dispVars, cpu_pc, logVars>>
    /\ UNCHANGED <<poisonVars, dropVars>>

\* while self.lts.has_programs() { let process_ids = self.lts.batch_step(); ..
\* (step takes the Memory's write lock: a poisoned lock panics)
DrvBatchStep ==
    /\ drv_pc = "loop"
    /\ program_queue # << >>
    /\ IF mem_poisoned
       THEN /\ drv_pc' = "panicked"
            /\ UNCHANGED <<memVars, ltsVars, last_call, admitted_log, drv_process_ids>>
       ELSE LET r == LtsBatchStep(LtsNow)
            IN  /\ SetLts(r.l)
                /\ last_call' = [op |-> "batch_step", ok |-> TRUE, err |-> "none",
                                 ids |-> r.process_ids]
                /\ admitted_log' = admitted_log \o r.process_ids
                /\ drv_process_ids' = r.process_ids
                /\ drv_pc' = IF r.l.m.panic # "none" THEN "panicked"
                             ELSE IF r.process_ids = << >> THEN "await" ELSE "schedule"
    /\ UNCHANGED <<diskVars, enqueued_log, writes_made, panicked>>
    /\ UNCHANGED <<stsVars, cpuVars, process_stats, dispVars, cpu_pc, logVars>>
    /\ UNCHANGED <<poisonVars, dropVars>>

\* the loop is left when has_programs() is false; the statistics are printed
DrvFinish ==
    /\ drv_pc = "loop"
    /\ program_queue = << >>
    /\ drv_pc' = "done"
    /\ UNCHANGED <<diskVars, memVars, ltsVars, obsVars>>
    /\ UNCHANGED <<stsVars, cpuVars, drv_process_ids, process_stats, dispVars, cpu_pc, logVars>>
    /\ UNCHANGED <<poisonVars, dropVars>>

\* one turn of `for process_id in process_ids`: get_pcb_for under the Memory's
\* read lock, then ShortTermScheduler::schedule_process under the scheduler's mutex
DrvSchedule ==
    /\ drv_pc = "schedule"
    /\ LET process_id == Head(drv_process_ids)
       IN  IF mem_poisoned \/ process_id \notin DOMAIN mem_pcb_map
           THEN /\ drv_pc' = "panicked"
                /\ UNCHANGED <<ready_queue, all_procs_are_finished, scheduled_log,
                               drv_process_ids>>
           ELSE /\ ready_queue' = Append(ready_queue, mem_pcb_map[process_id])
                /\ all_procs_are_finished' = IdleAfterSchedule(all_procs_are_finished)
                /\ scheduled_log' = Append(scheduled_log, mem_pcb_map[process_id])
                /\ drv_process_ids' = Tail(drv_process_ids)
                /\ drv_pc' = IF Tail(drv_process_ids) = << >> THEN "await" ELSE "schedule"
    /\ UNCHANGED <<diskVars, memVars, ltsVars, obsVars>>
    /\ UNCHANGED <<scheduling_alg, current_pcb, cpuVars, process_stats, dispVars, cpu_pc,
                   loaded_log>>
    /\ UNCHANGED <<poisonVars, dropVars>>

\* ShortTermScheduler::await_all_procs_finished returns
DrvAwait ==
    /\ drv_pc = "await"
    /\ all_procs_are_finished
    /\ drv_pc' = "stats"
    /\ UNCHANGED <<diskVars, memVars, ltsVars, obsVars>>
    /\ UNCHANGED <<stsVars, cpuVars, drv_process_ids, process_stats, dispVars, cpu_pc, logVars>>
    /\ UNCHANGED <<poisonVars, dropVars>>

\* the statistics of Memory's PCBs, read under the Memory's read lock and sorted
\* by id, are pushed
DrvStats ==
    /\ drv_pc = "stats"
    /\ IF mem_poisoned
       THEN /\ drv_pc' = "panicked"
            /\ UNCHANGED process_stats
       ELSE /\ LET ids == SortedIds(DOMAIN mem_pcb_map)
               IN  process_stats' = process_stats \o
                       [i \in 1..Cardinality(DOMAIN mem_pcb_map) |->
                           <<pcb_heap[mem_pcb_map[ids[i]]].id,
                             pcb_heap[mem_pcb_map[ids[i]]].priority>>]
            /\ drv_pc' = "core_dump"
    /\ UNCHANGED <<diskVars, memVars, ltsVars, obsVars>>
    /\ UNCHANGED <<stsVars, cpuVars, drv_process_ids, dispVars, cpu_pc, logVars>>
    /\ UNCHANGED <<poisonVars, dropVars>>

\* self.memory.write().unwrap().core_dump(): the resident list is left as it is
DrvCoreDump ==
    /\ drv_pc = "core_dump"
    /\ IF mem_poisoned
       THEN /\ drv_pc' = "panicked"
            /\ UNCHANGED <<memVars, ltsVars>>
       ELSE /\ SetLts([program_queue |-> program_queue, unload_list |-> unload_list,
                       m |-> MemCoreDump(MemNow)])
            /\ drv_pc' = "loop"
    /\ UNCHANGED <<diskVars, obsVars>>
    /\ UNCHANGED <<stsVars, cpuVars, drv_process_ids, process_stats, dispVars, cpu_pc, logVars>>
    /\ UNCHANGED <<poisonVars, dropVars>>

\* Driver::start has returned and the Driver goes out of scope: its
\* ShortTermScheduler is dropped (impl Drop for ShortTermScheduler)
DrvDrop ==
    /\ drv_pc = "done"
    /\ dispatch_should_terminate' = TRUE
    /\ drv_pc' = "dropped"
    /\ UNCHANGED <<diskVars, memVars, ltsVars, obsVars>>
    /\ UNCHANGED <<stsVars, cpuVars, drv_process_ids, process_stats, dispVars, cpu_pc, logVars>>
    /\ UNCHANGED <<poisonVars, cycle_should_terminate, dma_should_terminate, cpu_drop_pc>>

Driver ==
    DrvEnqueue \/ DrvBatchStep \/ DrvFinish \/ DrvSchedule \/ DrvAwait \/ DrvStats
        \/ DrvCoreDump \/ DrvDrop

(***************************************************************************)
(* The dispatcher thread: ShortTermScheduler::dispatch, again and again    *)
(***************************************************************************)
\* the CPU thread holds the CpuResources mutex while it waits for the DMA
\* thread's reply, the dispatcher between the two halves of execute_process
\* (a test that calls execute_process itself makes one step of the call)
CpuMutexHeldByCpuThread == cpu_pc = "dma_wait"
CpuMutexHeldByDispatcher == disp_pc = "load"

\* while !dispatch_should_terminate { dispatch() }
DispLoop ==
    /\ disp_pc = "top"
    /\ disp_pc' = IF dispatch_should_terminate THEN "exited" ELSE "gate"
    /\ UNCHANGED <<diskVars, memVars, ltsVars, obsVars>>
    /\ UNCHANGED <<stsVars, cpuVars, drvVars, disp_in_pcb, disp_out_pcb,
                   disp_out_pcb_state, cpu_pc, logVars>>
    /\ UNCHANGED <<poisonVars, dropVars>>

\* the wait on all_procs_are_finished_condvar ends
DispGate ==
    /\ disp_pc = "gate"
    /\ ~all_procs_are_finished
    /\ disp_pc' = "pop"
    /\ UNCHANGED <<diskVars, memVars, ltsVars, obsVars>>
    /\ UNCHANGED <<stsVars, cpuVars, drvVars, disp_in_pcb, disp_out_pcb,
                   disp_out_pcb_state, cpu_pc, logVars>>
    /\ UNCHANGED <<poisonVars, dropVars>>

\* under the scheduler's mutex: in_pcb = ready_queue.pop().unwrap(),
\* out_pcb = current_pcb, current_pcb = Some(in_pcb)
DispPop ==
    /\ disp_pc = "pop"
    /\ IF ready_queue = << >>
       THEN /\ disp_pc' = "panicked"
            /\ UNCHANGED <<ready_queue, current_pcb, disp_in_pcb, disp_out_pcb>>
       ELSE \E i \in PopCandidates(scheduling_alg, ready_queue) :
               /\ disp_in_pcb' = ready_queue[i]
               /\ disp_out_pcb' = current_pcb
               /\ current_pcb' = ready_queue[i]
               /\ ready_queue' = RemoveAt(ready_queue, i)
               /\ disp_pc' = "enter"
    /\ UNCHANGED <<diskVars, memVars, ltsVars, obsVars>>
    /\ UNCHANGED <<scheduling_alg, all_procs_are_finished, cpuVars, drvVars,
                   disp_out_pcb_state, cpu_pc, logVars>>
    /\ UNCHANGED <<poisonVars, dropVars>>

\* Cpu::await_process_interrupt takes the CpuResources mutex for the condvar: a
\* mutex poisoned by a panic of its holder panics the caller
DispAwaitEnter ==
    /\ disp_pc = "enter"
    /\ ~CpuMutexHeldByCpuThread
    /\ disp_pc' = IF cpu_poisoned THEN "panicked" ELSE "await"
    /\ UNCHANGED <<diskVars, memVars, ltsVars, obsVars>>
    /\ UNCHANGED <<stsVars, cpuVars, drvVars, disp_in_pcb, disp_out_pcb,
                   disp_out_pcb_state, cpu_pc, logVars>>
    /\ UNCHANGED <<poisonVars, dropVars>>

\* await_process_interrupt without its wait
DispAwaitInterrupt_NoWait ==
    /\ disp_pc = "await"
    /\ ~CpuMutexHeldByCpuThread
    /\ IF cpu_poisoned
       THEN /\ disp_pc' = "panicked"
            /\ UNCHANGED disp_out_pcb_state
       ELSE /\ disp_out_pcb_state' = proc_interrupt_type
            /\ disp_pc' = "exec"
    /\ UNCHANGED <<diskVars, memVars, ltsVars, obsVars>>
    /\ UNCHANGED <<stsVars, cpuVars, drvVars, disp_in_pcb, disp_out_pcb, cpu_pc, logVars>>
    /\ UNCHANGED <<poisonVars, dropVars>>

\* the wait on proc_should_interrupt_condvar ends, and await_process_interrupt
\* returns the interrupt type, read under the CpuResources mutex
DispAwaitInterrupt ==
    /\ disp_pc = "await"
    /\ proc_should_interrupt
    /\ ~CpuMutexHeldByCpuThread
    /\ IF cpu_poisoned
       THEN /\ disp_pc' = "panicked"
            /\ UNCHANGED disp_out_pcb_state
       ELSE /\ disp_out_pcb_state' = proc_interrupt_type
            /\ disp_pc' = "exec"
    /\ UNCHANGED <<diskVars, memVars, ltsVars, obsVars>>
    /\ UNCHANGED <<stsVars, cpuVars, drvVars, disp_in_pcb, disp_out_pcb, cpu_pc, logVars>>
    /\ UNCHANGED <<poisonVars, dropVars>>

\* the outgoing half of Cpu::execute_process with the PCB left as it is
HeapAfterSave_NoSave(heap, in_pcb, out_pcb) ==
    LET h1 == [heap EXCEPT ![in_pcb].state = "Running"]
    IN  IF out_pcb = 0
        THEN h1
        ELSE [h1 EXCEPT ![out_pcb].burst_count = h1[out_pcb].burst_count + 1,
                        ![out_pcb].burst_time_is_recording = FALSE]

\* the PCB heap after in_pcb.state = Running and the outgoing half of
\* Cpu::execute_process: the context is saved and the burst ended
HeapAfterSave(heap, in_pcb, out_pcb) ==
    LET h1 == [heap EXCEPT ![in_pcb].state = "Running"]
    IN  IF out_pcb = 0
        THEN h1
        ELSE [h1 EXCEPT ![out_pcb].program_counter = cpu_program_counter,
                        ![out_pcb].registers = cpu_registers,
                        ![out_pcb].burst_count = h1[out_pcb].burst_count + 1,
                        ![out_pcb].burst_time_is_recording = FALSE]

\* in_pcb.state = Running; cpu.execute_process(Some(in_pcb), out_pcb) up to the
\* end of its outgoing half: the CpuResources mutex is taken and kept
DispExecute ==
    /\ disp_pc = "exec"
    /\ ~CpuMutexHeldByCpuThread
    /\ LET h1 == [pcb_heap EXCEPT ![disp_in_pcb].state = "Running"]
       IN  IF cpu_poisoned
           THEN /\ pcb_heap' = h1
                /\ disp_pc' = "panicked"
                /\ UNCHANGED cpu_poisoned
           ELSE IF disp_out_pcb # 0 /\ ~h1[disp_out_pcb].burst_time_is_recording
           THEN \* end_record_burst_time panics
                /\ pcb_heap' = h1
                /\ disp_pc' = "panicked"
                /\ cpu_poisoned' = TRUE
           ELSE /\ pcb_heap' = HeapAfterSave(pcb_heap, disp_in_pcb, disp_out_pcb)
                /\ disp_pc' = "load"
                /\ UNCHANGED cpu_poisoned
    /\ UNCHANGED <<diskVars, mem_pcb_map, mem_data, mem_current_data_idx, ltsVars, obsVars>>
    /\ UNCHANGED <<stsVars, cpuVars, drvVars, disp_in_pcb, disp_out_pcb, disp_out_pcb_state,
                   cpu_pc, logVars>>
    /\ UNCHANGED <<mem_poisoned, dropVars>>

\* the incoming half of Cpu::execute_process: the burst starts, the instructions
\* are read from Memory under its read lock into the cache, the context is
\* loaded and the run gate is set RUNNING; the CpuResources mutex is released
DispLoadIncoming ==
    /\ disp_pc = "load"
    /\ LET h3 == [pcb_heap EXCEPT ![disp_in_pcb].burst_time_is_recording = TRUE]
           in == h3[disp_in_pcb]
       IN  /\ pcb_heap' = h3
           /\ IF \/ mem_poisoned
                 \/ ReadBlockPanic(in.mem_start_address, in.mem_in_start_address) # "none"
              THEN /\ disp_pc' = "panicked"
                   /\ cpu_poisoned' = TRUE
                   /\ UNCHANGED <<cpu_cache, cpu_program_counter, cpu_mem_start_address,
                                  cpu_registers, proc_should_interrupt, loaded_log>>
              ELSE /\ cpu_cache' = ReadBlockFrom(mem_data, in.mem_start_address,
                                                 in.mem_in_start_address)
                   /\ cpu_program_counter' = in.program_counter
                   /\ cpu_mem_start_address' = in.mem_start_address
                   /\ cpu_registers' = in.registers
                   /\ proc_should_interrupt' = FALSE
                   /\ loaded_log' = Append(loaded_log, disp_in_pcb)
                   /\ disp_pc' = "dispose"
                   /\ UNCHANGED cpu_poisoned
    /\ UNCHANGED <<diskVars, mem_pcb_map, mem_data, mem_current_data_idx, ltsVars, obsVars>>
    /\ UNCHANGED <<stsVars, proc_interrupt_type, dmaVars, drvVars, disp_in_pcb, disp_out_pcb,
                   disp_out_pcb_state, cpu_pc, scheduled_log>>
    /\ UNCHANGED <<mem_poisoned, dropVars>>

\* under the scheduler's mutex: the outgoing PCB is disposed of by its interrupt
\* state, and the idle flag is raised if the ready queue is empty
DispDispose ==
    /\ disp_pc = "dispose"
    /\ IF disp_out_pcb_state = "Running" \/ (disp_out_pcb_state # "Terminated" /\ disp_out_pcb = 0)
       THEN /\ disp_pc' = "panicked"
            /\ UNCHANGED <<pcb_heap, ready_queue, all_procs_are_finished>>
       ELSE LET queue == IF disp_out_pcb_state = "Ready"
                         THEN Append(ready_queue, disp_out_pcb) ELSE ready_queue
            IN  /\ pcb_heap' = IF disp_out_pcb_state = "Terminated" THEN pcb_heap
                               ELSE [pcb_heap EXCEPT ![disp_out_pcb].state = disp_out_pcb_state]
                /\ ready_queue' = queue
                /\ all_procs_are_finished' = IdleAfterDispatch(all_procs_are_finished, queue)
                /\ disp_pc' = "top"
    /\ UNCHANGED <<diskVars, mem_pcb_map, mem_data, mem_current_data_idx, ltsVars, obsVars>>
    /\ UNCHANGED <<scheduling_alg, current_pcb, cpuVars, drvVars, disp_in_pcb, disp_out_pcb,
                   disp_out_pcb_state, cpu_pc, logVars>>
    /\ UNCHANGED <<poisonVars, dropVars>>

Dispatcher ==
    DispLoop \/ DispGate \/ DispPop \/ DispAwaitEnter \/ DispAwaitInterrupt \/ DispExecute
        \/ DispLoadIncoming \/ DispDispose

(***************************************************************************)
(* The CPU thread: Cpu::cycle, again and again                             *)
(***************************************************************************)
\* while !cycle_should_terminate { cycle() }: cycle begins by taking the
\* CpuResources mutex for the condvar
CpuLoop ==
    /\ cpu_pc = "top"
    /\ cycle_should_terminate \/ ~CpuMutexHeldByDispatcher
    /\ cpu_pc' = IF cycle_should_terminate THEN "exited"
                 ELSE IF cpu_poisoned THEN "panicked"
                 ELSE "gate"
    /\ UNCHANGED <<diskVars, memVars, ltsVars, obsVars>>
    /\ UNCHANGED <<stsVars, cpuVars, drvVars, dispVars, logVars>>
    /\ UNCHANGED <<poisonVars, dropVars>>

\* cycle without its wait
CpuGate_NoWait ==
    /\ cpu_pc = "gate"
    /\ cpu_pc' = "run"
    /\ UNCHANGED <<diskVars, memVars, ltsVars, obsVars>>
    /\ UNCHANGED <<stsVars, cpuVars, drvVars, dispVars, logVars>>
    /\ UNCHANGED <<poisonVars, dropVars>>

\* the wait on proc_should_interrupt_condvar ends
CpuGate ==
    /\ cpu_pc = "gate"
    /\ ~proc_should_interrupt
    /\ cpu_pc' = "run"
    /\ UNCHANGED <<diskVars, memVars, ltsVars, obsVars>>
    /\ UNCHANGED <<stsVars, cpuVars, drvVars, dispVars, logVars>>
    /\ UNCHANGED <<poisonVars, dropVars>>

\* under the CPU's mutex: fetch, decode, execute; RD and WR send their command
\* on the DMA channel and wait for the reply, the mutex held.  A panic poisons
\* the mutex.
CpuCycle ==
    /\ cpu_pc = "run"
    /\ ~CpuMutexHeldByDispatcher
    /\ IF cpu_poisoned \/ cpu_program_counter >= Len(cpu_cache)
       THEN \* the mutex is poisoned, or the fetch indexes past the cache
            /\ cpu_pc' = "panicked"
            /\ cpu_poisoned' = TRUE
            /\ UNCHANGED <<cpu_program_counter, cpu_registers, proc_should_interrupt,
                           proc_interrupt_type, dma_command, mem_data, mem_poisoned>>
       ELSE LET current_instruction == At(cpu_cache, cpu_program_counter)
                c == Execute([program_counter |-> cpu_program_counter + 1,
                              registers |-> cpu_registers,
                              mem_start_address |-> cpu_mem_start_address,
                              memory |-> mem_data,
                              memory_poisoned |-> mem_poisoned,
                              should_interrupt |-> proc_should_interrupt,
                              interrupt_type |-> proc_interrupt_type,
                              dma |-> dma_command,
                              fault |-> "none",
                              overflowed |-> FALSE],
                             Decode(current_instruction))
            IN  \* an arithmetic result that does not fit a u32: the build's
                \* overflow checks, if any, panic
                \E overflow_checks \in (IF c.overflowed THEN BOOLEAN ELSE {FALSE}) :
                    IF overflow_checks
                    THEN /\ cpu_program_counter' = c.program_counter
                         /\ cpu_pc' = "panicked"
                         /\ cpu_poisoned' = TRUE
                         /\ UNCHANGED <<cpu_registers, proc_should_interrupt,
                                        proc_interrupt_type, dma_command, mem_data,
                                        mem_poisoned>>
                    ELSE /\ cpu_program_counter' = c.program_counter
                         /\ cpu_registers' = c.registers
                         /\ mem_data' = c.memory
                         /\ mem_poisoned' = c.memory_poisoned
                         /\ proc_should_interrupt' = c.should_interrupt
                         /\ proc_interrupt_type' = c.interrupt_type
                         /\ dma_command' = c.dma
                         /\ cpu_poisoned' = (c.fault # "none")
                         /\ cpu_pc' = IF c.fault # "none" THEN "panicked"
                                      ELSE IF c.dma.kind # "None" THEN "dma_wait"
                                      ELSE "top"
    /\ UNCHANGED <<diskVars, mem_pcb_map, mem_current_data_idx, pcb_heap, ltsVars, obsVars>>
    /\ UNCHANGED <<stsVars, cpu_cache, cpu_mem_start_address, dma_response, dma_pc, drvVars,
                   dispVars, logVars>>
    /\ UNCHANGED dropVars

\* response_receiver.recv().unwrap() returns: RD puts the value into its
\* register; the CPU thread panics if the DMA thread has ended, which dropped
\* the reply's sender
CpuDmaReply ==
    /\ cpu_pc = "dma_wait"
    /\ dma_response.ready \/ dma_pc \in {"exited", "panicked"}
    /\ LET instruction == Decode(At(cpu_cache, cpu_program_counter - 1))
       IN  IF dma_response.ready
           THEN /\ cpu_registers' = IF instruction.opcode = 0
                                    THEN [cpu_registers EXCEPT ![instruction.reg_1_num] =
                                             dma_response.value]
                                    ELSE cpu_registers
                /\ dma_response' = [ready |-> FALSE, value |-> 0]
                /\ cpu_pc' = "top"
                /\ UNCHANGED <<cpu_poisoned, dma_command>>
           ELSE \* the channel's receiver is gone, and the command with it
                /\ cpu_pc' = "panicked"
                /\ cpu_poisoned' = TRUE
                /\ dma_command' = [kind |-> "None", address |-> 0, value |-> 0]
                /\ UNCHANGED <<cpu_registers, dma_response>>
    /\ UNCHANGED <<diskVars, memVars, ltsVars, obsVars>>
    /\ UNCHANGED <<stsVars, cpu_cache, cpu_program_counter, cpu_mem_start_address,
                   proc_should_interrupt, proc_interrupt_type, dma_pc,
                   drvVars, dispVars, logVars>>
    /\ UNCHANGED <<mem_poisoned, dropVars>>

CpuThread == CpuLoop \/ CpuGate \/ CpuCycle \/ CpuDmaReply

(***************************************************************************)
(* The DMA thread: the loop of Cpu::new                                    *)
(***************************************************************************)
\* a command is received and carried out on Memory under its lock, and the reply
\* is sent; read_from and write_to panic on an index outside Memory, write_to
\* under the write lock, which the panic poisons
DmaServe ==
    /\ dma_pc = "idle"
    /\ dma_command.kind # "None"
    /\ dma_command' = [kind |-> "None", address |-> 0, value |-> 0]
    /\ IF mem_poisoned \/ MemAccessPanics(dma_command.address)
       THEN /\ dma_pc' = "panicked"
            /\ mem_poisoned' = (mem_poisoned \/ dma_command.kind = "Store")
            /\ UNCHANGED <<mem_data, dma_response>>
       ELSE /\ mem_data' = IF dma_command.kind = "Store"
                           THEN SetAt(mem_data, dma_command.address, dma_command.value)
                           ELSE mem_data
            /\ dma_response' = [ready |-> TRUE,
                                value |-> IF dma_command.kind = "Fetch"
                                          THEN At(mem_data, dma_command.address) ELSE 0]
            /\ UNCHANGED <<dma_pc, mem_poisoned>>
    /\ UNCHANGED <<diskVars, mem_pcb_map, mem_current_data_idx, pcb_heap, ltsVars, obsVars>>
    /\ UNCHANGED <<stsVars, cpu_cache, cpu_program_counter, cpu_mem_start_address,
                   cpu_registers, proc_should_interrupt, proc_interrupt_type, drvVars,
                   dispVars, cpu_pc, logVars>>
    /\ UNCHANGED <<cpu_poisoned, dropVars>>

\* while !dma_should_terminate { recv_timeout(100 ms) .. }: a receive that times
\* out on the empty channel brings the thread back to the test of its flag
DmaExit ==
    /\ dma_pc = "idle"
    /\ dma_should_terminate
    /\ dma_pc' = "exited"
    /\ UNCHANGED <<diskVars, memVars, ltsVars, obsVars>>
    /\ UNCHANGED <<stsVars, cpu_cache, cpu_program_counter, cpu_mem_start_address,
                   cpu_registers, proc_should_interrupt, proc_interrupt_type, dma_command,
                   dma_response, drvVars, dispVars, cpu_pc, logVars>>
    /\ UNCHANGED <<poisonVars, dropVars>>

DmaThread == DmaServe \/ DmaExit

(***************************************************************************)
(* impl Drop for Cpu, run by the thread that gives up the last reference   *)
(***************************************************************************)
\* no reference to the Cpu is left: the Driver was dropped and the dispatcher
\* thread, whose closure holds the scheduler's resources, has ended; or the
\* test that owns the Cpu has come to its end
CpuUnreferenced ==
    \/ /\ drv_pc = "dropped"
       /\ disp_pc \in {"exited", "panicked"}
    \/ drv_pc = "job_done"

\* the two flags are set
CpuDrop ==
    /\ cpu_drop_pc = "alive"
    /\ CpuUnreferenced
    /\ cycle_should_terminate' = TRUE
    /\ dma_should_terminate' = TRUE
    /\ cpu_drop_pc' = "join"
    /\ UNCHANGED <<diskVars, memVars, ltsVars, obsVars>>
    /\ UNCHANGED <<stsVars, cpuVars, drvVars, dispVars, cpu_pc, logVars>>
    /\ UNCHANGED <<poisonVars, dispatch_should_terminate>>

\* dma_channel_handle.join().unwrap() returns, or panics after a panic of the
\* DMA thread
CpuDropJoin ==
    /\ cpu_drop_pc = "join"
    /\ dma_pc \in {"exited", "panicked"}
    /\ cpu_drop_pc' = IF dma_pc = "panicked" THEN "panicked" ELSE "dropped"
    /\ UNCHANGED <<diskVars, memVars, ltsVars, obsVars>>
    /\ UNCHANGED <<stsVars, cpuVars, drvVars, dispVars, cpu_pc, logVars>>
    /\ UNCHANGED <<poisonVars, dispatch_should_terminate, cycle_should_terminate,
                   dma_should_terminate>>

CpuDropper == CpuDrop \/ CpuDropJoin

NextSys == Driver \/ Dispatcher \/ CpuThread \/ DmaThread \/ CpuDropper

SpecSys == InitSys /\ [][NextSys]_vars

\* the threads are scheduled fairly: a thread that can take its next step, and
\* keeps being able to, takes it
FairSpecSys ==
    /\ SpecSys
    /\ WF_vars(Driver) /\ WF_vars(Dispatcher) /\ WF_vars(CpuThread) /\ WF_vars(DmaThread)
    /\ WF_vars(CpuDropper)

(***************************************************************************)
(* The kernel running programs that access Memory words                    *)
(***************************************************************************)
\* a program of 10 words that stores 7 into its output word, which is word 7 of
\* the program: LDI r1 7; WR r1 -> 28; HLT
OutputCode == <<Instr(1, 15, 0, 1, 7), Instr(3, 1, 1, 0, 28), HLT_WORD>>

\* the words a program of the Memory runs accesses, by each of the four data
\* instructions, with the address in the instruction or in a register: near the
\* end of Memory, and past it
MemCodes ==
    {\* LDI r1 7; WR r1 -> 4092; LW r2 <- 4092; HLT
     <<Instr(1, 15, 0, 1, 7), Instr(3, 1, 1, 0, 4092), Instr(1, 3, 0, 2, 4092), HLT_WORD>>,
     \* LDI r1 7; ST r1 -> 4052; RD r3 <- 4052; HLT
     <<Instr(1, 15, 0, 1, 7), Instr(1, 2, 1, 0, 4052), Instr(3, 0, 3, 0, 4052), HLT_WORD>>,
     \* LDI r2 4096; ST r1 -> [r2]; HLT
     <<Instr(1, 15, 0, 2, 4096), Instr(1, 2, 1, 2, 0), HLT_WORD>>,
     \* LDI r1 4088; LW r2 <- [r1]; HLT
     <<Instr(1, 15, 0, 1, 4088), Instr(1, 3, 1, 2, 0), HLT_WORD>>,
     \* RD r1 <- 4056; HLT
     <<Instr(3, 0, 1, 0, 4056), HLT_WORD>>,
     \* LDI r2 4052; WR r2 -> [r2]; HLT
     <<Instr(1, 15, 0, 2, 4052), Instr(3, 1, 2, 2, 0), HLT_WORD>>,
     \* LDI r2 4052; RD r1 <- [r2]; HLT
     <<Instr(1, 15, 0, 2, 4052), Instr(3, 0, 1, 2, 0), HLT_WORD>>,
     OutputCode,
     \* LDI r1 7; HLT; LDI r1 9
     <<Instr(1, 15, 0, 1, 7), HLT_WORD, Instr(1, 15, 0, 1, 9)>>,
     \* LDI r1 7; WR r1 -> 28; RD r2 <- 28; HLT
     <<Instr(1, 15, 0, 1, 7), Instr(3, 1, 1, 0, 28), Instr(3, 0, 2, 0, 28), HLT_WORD>>}

\* two programs of 10 words each, which share one batch: the first is loaded at
\* word 0 of Memory, the second at word 10
MemCatalogs ==
    {[i \in 1..2 |-> SysProgram(i, i, IF i = 1 THEN code_1 ELSE code_2, 10)] :
        code_1 \in MemCodes, code_2 \in MemCodes}

InitMem ==
    \E progs \in MemCatalogs, alg \in {"Fifo", "Priority"} :
        InitKernel(progs, alg, "enqueue", "top", "top")

SpecMem == InitMem /\ [][NextSys]_vars

(***************************************************************************)
(* The kernel running programs with an instruction the CPU cannot execute  *)
(***************************************************************************)
\* programs whose first instruction panics the CPU thread, and programs that halt
FaultCodes ==
    {\* DIV r3 = r1 / r2, with r2 = 0; HLT
     <<Instr(0, 8, 1, 2, 12288), HLT_WORD>>,
     \* DIVI r1 = r1 / 0; HLT
     <<Instr(1, 14, 0, 1, 0), HLT_WORD>>,
     \* opcode 0xB, which no arithmetic instruction has; HLT
     <<Instr(0, 11, 0, 0, 0), HLT_WORD>>}

HaltingCodes ==
    {\* LDI r1 6; LDI r2 3; DIV r3 = r1 / r2; HLT
     <<Instr(1, 15, 0, 1, 6), Instr(1, 15, 0, 2, 3), Instr(0, 8, 1, 2, 12288), HLT_WORD>>,
     \* WR r1 -> word 4 of the program; HLT
     <<Instr(3, 1, 1, 0, 16), HLT_WORD>>}

\* one program, or two of 8 words each which share one batch; one of them has
\* the instruction that panics
FaultCatalogs ==
    {<<SysProgram(1, 1, code, 8)>> : code \in FaultCodes}
    \cup
    {[i \in 1..2 |-> SysProgram(i, i, IF i = 1 THEN code_1 ELSE code_2, 8)] :
        code_1 \in FaultCodes, code_2 \in HaltingCodes}
    \cup
    {[i \in 1..2 |-> SysProgram(i, i, IF i = 1 THEN code_1 ELSE code_2, 8)] :
        code_1 \in HaltingCodes, code_2 \in FaultCodes}

InitFault ==
    \E progs \in FaultCatalogs, alg \in {"Fifo", "Priority"} :
        InitKernel(progs, alg, "enqueue", "top", "top")

SpecFault == InitFault /\ [][NextSys]_vars

FairSpecFault ==
    /\ SpecFault
    /\ WF_vars(Driver) /\ WF_vars(Dispatcher) /\ WF_vars(CpuThread) /\ WF_vars(DmaThread)
    /\ WF_vars(CpuDropper)

(***************************************************************************)
(* A Cpu used on its own, as test_execute_job1 uses it: the test's thread  *)
(* is the main thread (drv_pc), and there is no dispatcher                 *)
(***************************************************************************)
\* "JOB 1" of data/program_file.txt: the sum of the numbers of an array
Job1Code ==
    <<Word(49232, 92),        \*  0: RD r5 <- 0x5C
      Word(19206, 0),         \*  1: MOVI r6 0
      Word(19201, 0),         \*  2: MOVI r1 0
      Word(19200, 0),         \*  3: MOVI r0 0
      Word(20234, 92),        \*  4: LDI r10 0x5C
      Word(20237, 220),       \*  5: LDI r13 0xDC
      Word(19466, 4),         \*  6: ADDI r10 4
      Word(49338, 0),         \*  7: RD r11 <- [r10]
      Word(17085, 0),         \*  8: ST r11 -> [r13]
      Word(19469, 4),         \*  9: ADDI r13 4
      Word(19462, 1),         \* 10: ADDI r6 1
      Word(4197, 32768),      \* 11: SLT r8 = r6 < r5
      Word(22145, 24),        \* 12: BNE r8 r1 -> 0x18
      Word(19206, 0),         \* 13: MOVI r6 0
      Word(20233, 220),       \* 14: LDI r9 0xDC
      Word(17303, 0),         \* 15: LW r7 <- [r9]
      Word(1287, 0),          \* 16: ADD r0 = r0 + r7
      Word(19462, 1),         \* 17: ADDI r6 1
      Word(19465, 4),         \* 18: ADDI r9 4
      Word(4197, 32768),      \* 19: SLT r8 = r6 < r5
      Word(22145, 60),        \* 20: BNE r8 r1 -> 0x3C
      Word(49408, 172),       \* 21: WR r0 -> 0xAC
      Word(37376, 0)>>        \* 22: HLT

\* the input region of the test: the count, then the numbers
Job1Input == <<10, 6, 44, 69, 1, 7, 0, 1, 5, 10, 85, 0, 0, 0, 0, 0, 0, 0, 0, 0>>

\* the input regions the program is run on: the test's, and a shorter array
JobInputs == {Job1Input, <<3, 9, 0, 4>> \o Zeros(16)}

Job1ProgramInfo ==
    [id |-> 1, priority |-> 2, instruction_buffer_size |-> 23, in_buffer_size |-> 20,
     out_buffer_size |-> 12, temp_buffer_size |-> 12, data_start_idx |-> 0]

\* Memory::new, then Cpu::new; the test has yet to create the process
InitJob == InitKernel(<< >>, "Priority", "job_create", "off", "top")

\* memory.create_process(&program_info, &program_data); memory.get_pcb_for(1)
JobCreateProcess ==
    /\ drv_pc = "job_create"
    /\ \E input \in JobInputs :
           LET m == MemCreateProcess(MemNow, Job1ProgramInfo, Job1Code \o input \o Zeros(24))
           IN  /\ mem_pcb_map' = m.pcb_map
               /\ mem_data' = m.data
               /\ mem_current_data_idx' = m.current_data_idx
               /\ pcb_heap' = m.heap
               /\ drv_process_ids' = <<m.pcb_map[1]>>
    /\ drv_pc' = "job_execute"
    /\ UNCHANGED <<diskVars, ltsVars, obsVars>>
    /\ UNCHANGED <<stsVars, cpuVars, process_stats, dispVars, cpu_pc, logVars>>
    /\ UNCHANGED <<poisonVars, dropVars>>

\* cpu.execute_process(Some(pcb), None), under the CpuResources mutex: the burst
\* starts, the instructions are read into the cache, the context is loaded and
\* the run gate is set RUNNING
JobExecuteProcess ==
    /\ drv_pc = "job_execute"
    /\ ~CpuMutexHeldByCpuThread
    /\ LET in_pcb == Head(drv_process_ids)
           h == [pcb_heap EXCEPT ![in_pcb].burst_time_is_recording = TRUE]
           in == h[in_pcb]
       IN  IF cpu_poisoned
           THEN /\ drv_pc' = "panicked"
                /\ UNCHANGED <<pcb_heap, cpu_cache, cpu_program_counter, cpu_mem_start_address,
                               cpu_registers, proc_should_interrupt, loaded_log, cpu_poisoned>>
           ELSE /\ pcb_heap' = h
                /\ IF \/ mem_poisoned
                      \/ ReadBlockPanic(in.mem_start_address, in.mem_in_start_address) # "none"
                   THEN /\ drv_pc' = "panicked"
                        /\ cpu_poisoned' = TRUE
                        /\ UNCHANGED <<cpu_cache, cpu_program_counter, cpu_mem_start_address,
                                       cpu_registers, proc_should_interrupt, loaded_log>>
                   ELSE /\ cpu_cache' = ReadBlockFrom(mem_data, in.mem_start_address,
                                                      in.mem_in_start_address)
                        /\ cpu_program_counter' = in.program_counter
                        /\ cpu_mem_start_address' = in.mem_start_address
                        /\ cpu_registers' = in.registers
                        /\ proc_should_interrupt' = FALSE
                        /\ loaded_log' = Append(loaded_log, in_pcb)
                        /\ drv_pc' = "job_await"
                        /\ UNCHANGED cpu_poisoned
    /\ UNCHANGED <<diskVars, mem_pcb_map, mem_data, mem_current_data_idx, ltsVars, obsVars>>
    /\ UNCHANGED <<stsVars, proc_interrupt_type, dmaVars, drv_process_ids, process_stats,
                   dispVars, cpu_pc, scheduled_log>>
    /\ UNCHANGED <<mem_poisoned, dropVars>>

\* cpu.await_process_interrupt() returns
JobAwaitInterrupt ==
    /\ drv_pc = "job_await"
    /\ proc_should_interrupt
    /\ ~CpuMutexHeldByCpuThread
    /\ drv_pc' = IF cpu_poisoned THEN "panicked" ELSE "job_read"
    /\ UNCHANGED <<diskVars, memVars, ltsVars, obsVars>>
    /\ UNCHANGED <<stsVars, cpuVars, drv_process_ids, process_stats, dispVars, cpu_pc, logVars>>
    /\ UNCHANGED <<poisonVars, dropVars>>

\* program_data = memory.read_block_from(0, pcb.get_mem_end_address()), under
\* the Memory's read lock; the assertions follow
JobRead ==
    /\ drv_pc = "job_read"
    /\ LET mem_end_address == pcb_heap[Head(drv_process_ids)].mem_end_address
       IN  IF mem_poisoned \/ ReadBlockPanic(0, mem_end_address) # "none"
           THEN /\ drv_pc' = "panicked"
                /\ UNCHANGED last_call
           ELSE /\ last_call' = [op |-> "read_block_from", ok |-> TRUE, err |-> "none",
                                 ids |-> ReadBlockFrom(mem_data, 0, mem_end_address)]
                /\ drv_pc' = "job_done"
    /\ UNCHANGED <<diskVars, memVars, ltsVars, enqueued_log, admitted_log, writes_made, panicked>>
    /\ UNCHANGED <<stsVars, cpuVars, drv_process_ids, process_stats, dispVars, cpu_pc, logVars>>
    /\ UNCHANGED <<poisonVars, dropVars>>

JobTest == JobCreateProcess \/ JobExecuteProcess \/ JobAwaitInterrupt \/ JobRead

NextJob == JobTest \/ CpuThread \/ DmaThread \/ CpuDropper

SpecJob == InitJob /\ [][NextJob]_vars

(***************************************************************************)
(* A Disk used on its own, as its tests use it                             *)
(***************************************************************************)
\* the Disk of the current state, as one value
DiskNow ==
    [program_map |-> disk_program_map, data |-> disk_data,
     current_data_idx |-> disk_current_data_idx, panic |-> "none"]

\* the arguments of the write_program calls: a small program (two fillings) and
\* one of 4092 words, which fills the Disk exactly beside a small one
WriteProgramArgs ==
    {[instruction_buffer_size |-> 1, in_buffer_size |-> 1, out_buffer_size |-> 1,
      temp_buffer_size |-> 1, data |-> <<v, v + 1, v + 2, v + 3>>] : v \in {1, 5}}
    \cup
    {[instruction_buffer_size |-> 1, in_buffer_size |-> DISK_SIZE - 4 - 3,
      out_buffer_size |-> 1, temp_buffer_size |-> 1,
      data |-> [k \in 1..(DISK_SIZE - 4) |-> 1 + (k % 3)]]}

\* the ids the calls are made with
DiskIds == {1, 2}

\* the blocks update_program is called with: of the length of output + temp of
\* every program above, one word shorter, one word longer
UpdateProgramArgs == {<<8, 9>>, <<8>>, <<8, 9, 9>>}

InitDisk == InitKernel(<< >>, "Priority", "off", "off", "off")

\* a call of Disk::write_program
WriteProgram ==
    /\ panicked = "none"
    /\ writes_made < MaxDiskCalls
    /\ \E id \in DiskIds, a \in WriteProgramArgs :
          LET d == DiskWriteProgram(DiskNow, id, id, a.instruction_buffer_size,
                                    a.in_buffer_size, a.out_buffer_size,
                                    a.temp_buffer_size, a.data)
          IN  /\ disk_program_map' = d.program_map
              /\ disk_data' = d.data
              /\ disk_current_data_idx' = d.current_data_idx
              /\ panicked' = d.panic
              /\ last_call' = [op |-> "write_program", ok |-> d.panic = "none",
                               err |-> d.panic, ids |-> <<id>>, args |-> a]
    /\ writes_made' = writes_made + 1
    /\ UNCHANGED <<memVars, ltsVars, enqueued_log, admitted_log, sysVars>>

\* a call of Disk::update_program
UpdateProgram ==
    /\ panicked = "none"
    /\ writes_made < MaxDiskCalls
    /\ \E program_id \in DiskIds, data \in UpdateProgramArgs :
          IF program_id \notin DOMAIN disk_program_map
          THEN /\ panicked' = "Program not found"
               /\ UNCHANGED disk_data
               /\ last_call' = [op |-> "update_program", ok |-> FALSE,
                                err |-> "Program not found", ids |-> <<program_id>>,
                                args |-> data]
          ELSE LET u == DiskUpdateProgram(disk_data, disk_program_map[program_id], data)
               IN  /\ disk_data' = u.data
                   /\ panicked' = u.panic
                   /\ last_call' = [op |-> "update_program", ok |-> u.panic = "none",
                                    err |-> u.panic, ids |-> <<program_id>>, args |-> data]
    /\ writes_made' = writes_made + 1
    /\ UNCHANGED <<disk_program_map, disk_current_data_idx, memVars, ltsVars,
                   enqueued_log, admitted_log, sysVars>>

NextDisk == WriteProgram \/ UpdateProgram

SpecDisk == InitDisk /\ [][NextDisk]_vars

(***************************************************************************)
(* A scheduler queue used on its own, as test_priority_queue uses it       *)
(***************************************************************************)
\* how many PCBs the queue is exercised with
MaxQueued == 3

\* the priorities the PCBs are given
PriorityLevels == {1, 2, 3}

\* PCBs made by ProcessControlBlock::new(&program_info, 0, 0), of any priorities
InitQueue ==
    \E priorities \in [1..MaxQueued -> PriorityLevels], alg \in {"Fifo", "Priority"} :
        InitKernelHeap(<< >>, alg, "off", "off", "off",
            [i \in 1..MaxQueued |->
                PcbNew([id |-> i - 1, priority |-> priorities[i],
                        instruction_buffer_size |-> 0, in_buffer_size |-> 0,
                        out_buffer_size |-> 0, temp_buffer_size |-> 0,
                        data_start_idx |-> 0], 0, 0)])

\* SchedulerQueue::push of a PCB that is not queued
QueuePush ==
    /\ \E h \in DOMAIN pcb_heap :
          /\ \A i \in DOMAIN ready_queue : ready_queue[i] # h
          /\ ready_queue' = Append(ready_queue, h)
          /\ last_call' = [op |-> "push", ok |-> TRUE, err |-> "none", ids |-> <<h>>]
    /\ UNCHANGED <<diskVars, memVars, ltsVars, enqueued_log, admitted_log, writes_made,
                   panicked>>
    /\ UNCHANGED <<scheduling_alg, current_pcb, all_procs_are_finished, cpuVars, drvVars,
                   dispVars, cpu_pc, logVars, poisonVars, dropVars>>

\* SchedulerQueue::pop
QueuePop ==
    /\ IF ready_queue = << >>
       THEN /\ last_call' = [op |-> "pop", ok |-> FALSE, err |-> "None", ids |-> << >>]
            /\ UNCHANGED ready_queue
       ELSE \E i \in PopCandidates(scheduling_alg, ready_queue) :
               /\ ready_queue' = RemoveAt(ready_queue, i)
               /\ last_call' = [op |-> "pop", ok |-> TRUE, err |-> "none",
                                ids |-> <<ready_queue[i]>>]
    /\ UNCHANGED <<diskVars, memVars, ltsVars, enqueued_log, admitted_log, writes_made,
                   panicked>>
    /\ UNCHANGED <<scheduling_alg, current_pcb, all_procs_are_finished, cpuVars, drvVars,
                   dispVars, cpu_pc, logVars, poisonVars, dropVars>>

NextQueue == QueuePush \/ QueuePop

SpecQueue == InitQueue /\ [][NextQueue]_vars

(***************************************************************************)
(* Properties of the long-term scheduler                                   *)
(***************************************************************************)
\* the length of the image of program id on the Disk
ImageLen(id) ==
    disk_program_map[id].instruction_buffer_size + disk_program_map[id].in_buffer_size
        + disk_program_map[id].out_buffer_size + disk_program_map[id].temp_buffer_size

\* the PCB Memory has registered for id
PcbFor(id) == pcb_heap[mem_pcb_map[id]]

Range(s) == {s[i] : i \in DOMAIN s}

\* C4: a step on a non-empty admit queue admits the front program exactly when
\* its image length is at most the remaining memory (equality included); an
\* admission pops exactly the front id, creates its process at the bump pointer
\* with the image's words, appends the id to the resident list and returns it.
C4_StepAdmitsIffFits ==
    [][(Step /\ program_queue # << >>) =>
        LET front == Head(program_queue)
            fits == ImageLen(front) <= MEMORY_SIZE - mem_current_data_idx
        IN  /\ last_call'.ok <=> fits
            /\ fits =>
                /\ program_queue' = Tail(program_queue)
                /\ unload_list' = Append(unload_list, front)
                /\ last_call'.ids = <<front>>
                /\ front \in DOMAIN mem_pcb_map'
                /\ pcb_heap'[mem_pcb_map'[front]].mem_start_address = mem_current_data_idx
                /\ pcb_heap'[mem_pcb_map'[front]].mem_end_address
                      = mem_current_data_idx + ImageLen(front)
                /\ mem_current_data_idx' = mem_current_data_idx + ImageLen(front)
                /\ SubSeq(mem_data', mem_current_data_idx + 1, mem_current_data_idx')
                      = DiskReadDataFor(disk_data, disk_program_map[front])]_vars

\* a step admitted a program that fills Memory to its last word, beside another
C4_Witness ==
    /\ last_call.op = "step" /\ last_call.ok
    /\ mem_current_data_idx = MEMORY_SIZE
    /\ Len(unload_list) = 2

\* C5: a step that returns an error changes nothing: not the admit queue, not the
\* resident list, not Memory (words, PCB map, bump pointer), not the Disk.
C5_StepErrorLeavesState ==
    [][(Step /\ ~last_call'.ok) =>
        UNCHANGED <<program_queue, unload_list, memVars, diskVars>>]_vars

\* a step returned InsufficientMemory with the refused program still in front
C5_Witness ==
    /\ last_call.op = "step" /\ ~last_call.ok
    /\ last_call.err = "Not enough memory to load program"
    /\ program_queue # << >>
    /\ mem_current_data_idx > 0

IsSuffix(s, t) == Len(s) <= Len(t) /\ SubSeq(t, Len(t) - Len(s) + 1, Len(t)) = s

\* C6: the ids admitted so far, in the order returned, followed by the admit
\* queue, are the ids enqueued so far, in order (so the admitted ids are a prefix
\* of the enqueued ids and none was skipped); a batch_step returns the ids it
\* admitted and stops at the first program that does not fit.
C6_AdmissionOrder ==
    /\ enqueued_log = admitted_log \o program_queue
    /\ last_call.op = "batch_step" =>
          /\ IsSuffix(last_call.ids, admitted_log)
          /\ \/ program_queue = << >>
             \/ ImageLen(Head(program_queue)) > MEMORY_SIZE - mem_current_data_idx

\* a batch_step admitted programs and stopped at one that did not fit, a smaller
\* one waiting behind it
C6_Witness ==
    /\ last_call.op = "batch_step" /\ last_call.ids # << >>
    /\ Len(program_queue) >= 2
    /\ ImageLen(program_queue[2]) <= MEMORY_SIZE - mem_current_data_idx

\* C7: when a batch_step stopped at a program that fits in an empty Memory, the
\* unload_all that follows completes and empties Memory, and the batch_step after
\* an unload_all admits the program in front of the queue first.
C7_RecoveryAfterUnload ==
    [][/\ (/\ UnloadAll
            /\ last_call.op = "batch_step"
            /\ program_queue # << >>
            /\ ImageLen(Head(program_queue)) <= MEMORY_SIZE)
          => (panicked' = "none" /\ mem_current_data_idx' = 0)
       /\ (/\ BatchStep
            /\ last_call.op = "unload_all"
            /\ program_queue # << >>
            /\ ImageLen(Head(program_queue)) <= MEMORY_SIZE)
          => (last_call'.ids # << >> /\ Head(last_call'.ids) = Head(program_queue))]_vars

\* the sum of the lengths of the regions of the PCBs registered under ids
RECURSIVE SumOfLengths(_)
SumOfLengths(ids) ==
    IF ids = {} THEN 0
    ELSE LET a == CHOOSE x \in ids : TRUE
         IN  (PcbFor(a).mem_end_address - PcbFor(a).mem_start_address)
                 + SumOfLengths(ids \ {a})

\* C8: in every reachable state the intervals [mem_start, mem_end) of the PCBs
\* registered in Memory are pairwise disjoint, their union is [0, next_free), and
\* next_free is the sum of their lengths and at most 1024.
C8_LayoutAlways ==
    /\ \A a, b \in DOMAIN mem_pcb_map :
          a # b => \/ PcbFor(a).mem_end_address <= PcbFor(b).mem_start_address
                   \/ PcbFor(b).mem_end_address <= PcbFor(a).mem_start_address
    /\ \A w \in 0..(mem_current_data_idx - 1) :
          \E a \in DOMAIN mem_pcb_map :
              PcbFor(a).mem_start_address <= w /\ w < PcbFor(a).mem_end_address
    /\ \A a \in DOMAIN mem_pcb_map :
          /\ 0 <= PcbFor(a).mem_start_address
          /\ PcbFor(a).mem_start_address <= PcbFor(a).mem_end_address
          /\ PcbFor(a).mem_end_address <= mem_current_data_idx
    /\ mem_current_data_idx = SumOfLengths(DOMAIN mem_pcb_map)
    /\ mem_current_data_idx <= MEMORY_SIZE

\* C9: every registered PCB has mem_start <= mem_in_start <= mem_out_start <=
\* mem_temp_start <= mem_end <= 1024, the inner boundaries being mem_start plus
\* the ProgramInfo's region sizes and mem_end mem_start plus the image's length.
C9_RegionBoundaries ==
    \A id \in DOMAIN mem_pcb_map :
        LET pcb == PcbFor(id)
            info == disk_program_map[id]
        IN  /\ pcb.mem_start_address <= pcb.mem_in_start_address
            /\ pcb.mem_in_start_address <= pcb.mem_out_start_address
            /\ pcb.mem_out_start_address <= pcb.mem_temp_start_address
            /\ pcb.mem_temp_start_address <= pcb.mem_end_address
            /\ pcb.mem_end_address <= MEMORY_SIZE
            /\ pcb.mem_in_start_address
                  = pcb.mem_start_address + info.instruction_buffer_size
            /\ pcb.mem_out_start_address
                  = pcb.mem_in_start_address + info.in_buffer_size
            /\ pcb.mem_temp_start_address
                  = pcb.mem_out_start_address + info.out_buffer_size
            /\ pcb.mem_end_address = pcb.mem_start_address + ImageLen(id)

\* a PCB is registered behind another one and ends at Memory's last word
C9_Witness ==
    \E id \in DOMAIN mem_pcb_map :
        /\ PcbFor(id).mem_start_address > 0
        /\ PcbFor(id).mem_end_address = MEMORY_SIZE

\* C10: after unload_all, the Disk image of every program that was resident has
\* its instruction and input words unchanged and its output and temp words equal
\* to Memory's words [mem_out_start, mem_end) of its process at the flush; the
\* images of the other programs are unchanged.
C10_FlushRoundTrip ==
    [][UnloadAll =>
        \A id \in DOMAIN disk_program_map :
            LET info == disk_program_map[id]
                before == DiskReadDataFor(disk_data, info)
                after == DiskReadDataFor(disk_data', info)
                kept == info.instruction_buffer_size + info.in_buffer_size
            IN  IF id \in Range(unload_list)
                THEN /\ SubSeq(after, 1, kept) = SubSeq(before, 1, kept)
                     /\ SubSeq(after, kept + 1, Len(after))
                          = Slice(mem_data, PcbFor(id).mem_out_start_address,
                                  PcbFor(id).mem_end_address)
                ELSE after = before]_vars

(***************************************************************************)
(* Properties of the Driver, the dispatcher and the CPU                    *)
(***************************************************************************)
\* the process of PCB h was loaded onto the CPU
Loaded(h) == \E i \in DOMAIN loaded_log : loaded_log[i] = h

\* the process of PCB h was loaded and has executed HLT: the gate is set RUNNING
\* by a load and INTERRUPTED again only by the HLT of the process loaded
Halted(h) ==
    \E i \in DOMAIN loaded_log :
        /\ loaded_log[i] = h
        /\ i < Len(loaded_log) \/ (proc_should_interrupt /\ proc_interrupt_type = "Terminated")

\* C1: the idle signal is true (so await_all_procs_finished can return) only
\* when the ready queue is empty and the process most recently loaded onto the
\* CPU has raised its Terminated interrupt: never while a scheduled process is
\* still queued or still executing.
C1_IdleOnlyWhenAllTerminated ==
    all_procs_are_finished =>
        /\ ready_queue = << >>
        /\ proc_should_interrupt
        /\ proc_interrupt_type = "Terminated"
        /\ \A i \in DOMAIN scheduled_log : Halted(scheduled_log[i])

\* C2: the Driver zeroes Memory (core_dump), and so goes on to the next batch,
\* only when every process admitted in the batch has executed HLT; never while
\* the CPU gate is RUNNING.
C2_CoreDumpAfterHalt ==
    [][DrvCoreDump =>
        /\ proc_should_interrupt
        /\ \A id \in DOMAIN mem_pcb_map : Halted(mem_pcb_map[id])]_vars

\* C3: every PCB given to schedule_process is eventually loaded onto the CPU, and
\* a driver waiting in await_all_procs_finished is eventually released.
C3_ScheduledEventuallyLoaded ==
    /\ \A h \in 1..MaxPrograms :
          (\E i \in DOMAIN scheduled_log : scheduled_log[i] = h) ~> Loaded(h)
    /\ (drv_pc = "await") ~> (drv_pc = "stats")

\* the driver waited for a batch of two processes, the first load having found
\* the CPU INTERRUPTED with Terminated, and was released with both loaded
C3_Witness ==
    /\ drv_pc = "stats"
    /\ Len(scheduled_log) >= 2
    /\ \A i \in DOMAIN scheduled_log : Loaded(scheduled_log[i])

(***************************************************************************)
(* Properties of Memory                                                    *)
(***************************************************************************)
\* Memory m holds no process: no PCB, every word zero, all of it remaining
MemoryIsEmpty(m) ==
    /\ m.pcb_map = EmptyMap
    /\ Len(m.data) = MEMORY_SIZE
    /\ \A i \in 1..MEMORY_SIZE : m.data[i] = 0
    /\ GetRemainingMemory(m.current_data_idx) = MEMORY_SIZE

\* C11: after unload_all the resident list is empty, Memory's PCB map is empty,
\* every one of the 1024 words is zero and get_remaining_memory is 1024; the same
\* holds of Memory after core_dump, whatever was admitted or stored before.
C11_EmptyAfterUnload ==
    /\ [][UnloadAll => (unload_list' = << >> /\ MemoryIsEmpty(MemNow'))]_vars
    /\ [](MemoryIsEmpty(MemCoreDump(MemNow)))

\* C12: a step that admits a program (create_process on an image no longer than
\* the remaining memory, also one ending at word 1024) registers a PCB over
\* [bump, bump + len), a block read of [mem_start, mem_end) returns the words
\* written, and the words below the bump pointer are unchanged.
C12_CreateThenReadBlock ==
    [][(Step /\ last_call'.ok) =>
        LET id == Head(program_queue)
            image == DiskReadDataFor(disk_data, disk_program_map[id])
            pcb == pcb_heap'[mem_pcb_map'[id]]
        IN  /\ pcb.mem_start_address = mem_current_data_idx
            /\ pcb.mem_end_address = mem_current_data_idx + Len(image)
            /\ ReadBlockPanic(pcb.mem_start_address, pcb.mem_end_address) = "none"
            /\ ReadBlockFrom(mem_data', pcb.mem_start_address, pcb.mem_end_address) = image
            /\ Slice(mem_data', 0, mem_current_data_idx)
                  = Slice(mem_data, 0, mem_current_data_idx)]_vars

\* the instruction the CPU thread is about to execute
CurrentInstruction == Decode(At(cpu_cache, cpu_program_counter))

\* the word index a data instruction of the loaded process translates to: the
\* byte address (of the instruction, or of the pointer register when one is
\* named) over 4, plus the start of the process
TranslatedIndex(byte_address) == byte_address \div 4 + cpu_mem_start_address

\* C13: a Memory word access is a fatal fault exactly when its word index is
\* >= 1024, and a faulting access modifies no word; a data access of the CPU
\* (ST, LW by the CPU thread; RD, WR through the DMA thread) whose translated
\* index is < 1024 is performed, whether or not the index lies in the region of
\* the loaded process.
C13_FaultIffIndexOutsideMemory ==
    [][/\ \* the DMA thread serves a Fetch (RD) or a Store (WR)
          DmaServe =>
             LET address == dma_command.address
             IN  /\ (dma_pc' = "panicked") <=> (address >= 1024)
                 /\ address >= 1024 => (mem_data' = mem_data /\ ~dma_response'.ready)
                 /\ (address < 1024 /\ dma_command.kind = "Store") =>
                       /\ mem_data' = [mem_data EXCEPT ![address + 1] = dma_command.value]
                       /\ dma_response'.ready
                 /\ (address < 1024 /\ dma_command.kind = "Fetch") =>
                       /\ mem_data' = mem_data
                       /\ dma_response' = [ready |-> TRUE, value |-> mem_data[address + 1]]
       /\ \* the CPU thread executes a data instruction
          (cpu_pc = "run" /\ cpu_pc' # "run" /\ cpu_program_counter < Len(cpu_cache)) =>
             LET instruction == CurrentInstruction
                 reg_1 == cpu_registers[instruction.reg_1_num]
                 reg_2 == cpu_registers[instruction.reg_2_num]
                 by_reg_2 == IF instruction.reg_2_num = 0
                             THEN TranslatedIndex(instruction.address)
                             ELSE TranslatedIndex(reg_2)
                 by_reg_1 == IF instruction.reg_1_num = 0
                             THEN TranslatedIndex(instruction.address)
                             ELSE TranslatedIndex(reg_1)
             IN  /\ (instruction.instr_type = 1 /\ instruction.opcode = 2) =>  \* ST
                       /\ (cpu_pc' = "panicked") <=> (by_reg_2 >= 1024)
                       /\ mem_data' = IF by_reg_2 >= 1024 THEN mem_data
                                      ELSE [mem_data EXCEPT ![by_reg_2 + 1] = reg_1]
                 /\ (instruction.instr_type = 1 /\ instruction.opcode = 3) =>  \* LW
                       /\ (cpu_pc' = "panicked") <=> (by_reg_1 >= 1024)
                       /\ mem_data' = mem_data
                       /\ by_reg_1 < 1024 =>
                             cpu_registers' = [cpu_registers EXCEPT ![instruction.reg_2_num] =
                                                  mem_data[by_reg_1 + 1]]
                 /\ (instruction.instr_type = 3 /\ instruction.opcode = 0) =>  \* RD
                       /\ cpu_pc' = "dma_wait" /\ mem_data' = mem_data
                       /\ dma_command' = [kind |-> "Fetch", address |-> by_reg_2, value |-> 0]
                 /\ (instruction.instr_type = 3 /\ instruction.opcode = 1) =>  \* WR
                       /\ cpu_pc' = "dma_wait" /\ mem_data' = mem_data
                       /\ dma_command' = [kind |-> "Store", address |-> by_reg_2,
                                          value |-> reg_1]
       /\ \* the CPU thread's wait for the DMA thread ends: with the reply, or
          \* with a panic where the DMA thread ended without one
          (cpu_pc = "dma_wait" /\ cpu_pc' # "dma_wait") =>
             LET instruction == Decode(At(cpu_cache, cpu_program_counter - 1))
             IN  /\ (cpu_pc' = "panicked") <=> ~dma_response.ready
                 /\ dma_pc = "panicked" => cpu_pc' = "panicked"
                 /\ mem_data' = mem_data
                 /\ (dma_response.ready /\ instruction.opcode = 0) =>
                       cpu_registers' = [cpu_registers EXCEPT ![instruction.reg_1_num] =
                                            dma_response.value]]_vars

\* the process loaded first stored 7 in the last word of Memory, far outside
\* its region [0, 10), and read it back; the process loaded next accessed a word
\* at or past index 1024 through the DMA thread, which ended both threads with
\* the 7 still in place
C13_Witness ==
    /\ Len(loaded_log) = 2
    /\ pcb_heap[loaded_log[1]].mem_end_address <= 1023
    /\ pcb_heap[loaded_log[1]].registers[2] = 7
    /\ At(mem_data, 1023) = 7
    /\ dma_pc = "panicked"
    /\ cpu_pc = "panicked"

(***************************************************************************)
(* Properties of the Disk                                                  *)
(***************************************************************************)
\* C14: a write_program that stays within the 4096 words makes read_data_for(
\* get_info_for(id)) return exactly the words passed, in region order, under a
\* ProgramInfo with the sizes passed, and alters neither the words nor the
\* ProgramInfo of a program written earlier.
C14_DiskRoundTrip ==
    [][(WriteProgram /\ last_call'.ok) =>
        LET id == last_call'.ids[1]
            a == last_call'.args
            info == disk_program_map'[id]
        IN  /\ DiskReadDataFor(disk_data', info) = a.data
            /\ info.instruction_buffer_size = a.instruction_buffer_size
            /\ info.in_buffer_size = a.in_buffer_size
            /\ info.out_buffer_size = a.out_buffer_size
            /\ info.temp_buffer_size = a.temp_buffer_size
            /\ \A earlier \in DOMAIN disk_program_map :
                  /\ disk_program_map'[earlier] = disk_program_map[earlier]
                  /\ DiskReadDataFor(disk_data', disk_program_map[earlier])
                        = DiskReadDataFor(disk_data, disk_program_map[earlier])]_vars

\* C15: update_program(id, data) with data as long as the output and temp regions
\* of program id overwrites exactly those words with data and changes no other
\* word of the Disk and no ProgramInfo; with data of another length it fails and
\* the Disk is unchanged.
C15_UpdateProgramFrame ==
    [][(UpdateProgram /\ last_call'.ids[1] \in DOMAIN disk_program_map) =>
        LET info == disk_program_map[last_call'.ids[1]]
            data == last_call'.args
            from == info.data_start_idx + info.instruction_buffer_size + info.in_buffer_size
            to == from + info.out_buffer_size + info.temp_buffer_size
        IN  IF Len(data) = info.out_buffer_size + info.temp_buffer_size
            THEN /\ last_call'.ok
                 /\ Slice(disk_data', from, to) = data
                 /\ Slice(disk_data', 0, from) = Slice(disk_data, 0, from)
                 /\ Slice(disk_data', to, DISK_SIZE) = Slice(disk_data, to, DISK_SIZE)
                 /\ UNCHANGED <<disk_program_map, disk_current_data_idx>>
            ELSE /\ ~last_call'.ok
                 /\ UNCHANGED diskVars]_vars

\* the output and temp words of the second of two programs were overwritten
C15_Witness ==
    /\ last_call.op = "update_program" /\ last_call.ok
    /\ Cardinality(DOMAIN disk_program_map) = 2
    /\ disk_program_map[last_call.ids[1]].data_start_idx > 0

\* C16: write_program with an id that is already on the Disk fails and leaves the
\* ProgramInfo of that id, the word pool and the bump pointer unchanged.
C16_DuplicateIdRejected ==
    [][(WriteProgram /\ last_call'.ids[1] \in DOMAIN disk_program_map) =>
        (~last_call'.ok /\ UNCHANGED diskVars)]_vars

(***************************************************************************)
(* Properties of the short-term scheduler's policies and the PCB states    *)
(***************************************************************************)
\* C17: under the FIFO policy the PCBs are loaded onto the CPU in exactly the
\* order of the schedule_process calls, however the calls interleave with the
\* dispatcher: the PCBs loaded so far are the first of those scheduled, in order.
C17_FifoLoadOrder ==
    scheduling_alg = "Fifo" =>
        /\ Len(loaded_log) <= Len(scheduled_log)
        /\ loaded_log = SubSeq(scheduled_log, 1, Len(loaded_log))

\* under FIFO, two processes of rising priority that waited in the ready queue
\* together were loaded in the order they were scheduled in
C17_Witness ==
    /\ scheduling_alg = "Fifo"
    /\ Len(loaded_log) = 3
    /\ pcb_heap[loaded_log[2]].priority < pcb_heap[loaded_log[3]].priority

\* C19: under the Priority policy the processes scheduled for one batch are loaded
\* (and so terminate) in descending order of priority, however the driver's
\* schedule_process calls interleave with the dispatcher: of two processes of
\* the batch resident in Memory, the one loaded first has the priority at least
\* of the other.
C19_PriorityLoadOrder ==
    scheduling_alg = "Priority" =>
        \A i, j \in DOMAIN loaded_log :
            (/\ i < j
             /\ \E a, b \in DOMAIN mem_pcb_map :
                   mem_pcb_map[a] = loaded_log[i] /\ mem_pcb_map[b] = loaded_log[j])
            => pcb_heap[loaded_log[i]].priority >= pcb_heap[loaded_log[j]].priority

\* the PCBs the dispatcher has disposed of as outgoing: all that were loaded
\* before the one it loaded last, and that one too once it is disposed of
DisposedAsOutgoing ==
    {loaded_log[i] : i \in 1..(Len(loaded_log) - 1)}

\* C20: a PCB is Ready until it is loaded and Running once it is loaded; a PCB
\* whose process executed HLT and that the dispatcher disposed of as outgoing is
\* Terminated; at most one PCB is Running at any time.
C20_PcbStateMachine ==
    /\ \A h \in DOMAIN pcb_heap :
          (~Loaded(h) /\ ~(disp_pc = "load" /\ disp_in_pcb = h))
              => pcb_heap[h].state = "Ready"
    /\ \A h \in DisposedAsOutgoing :
          (disp_pc \in {"top", "exited", "gate", "pop", "enter", "await"} \/ h # disp_out_pcb)
              => pcb_heap[h].state = "Terminated"
    /\ Cardinality({h \in DOMAIN pcb_heap : pcb_heap[h].state = "Running"}) <= 1

C21_TerminatedDisposal ==
    /\ [][(DispDispose /\ disp_out_pcb # 0 /\ disp_out_pcb_state = "Terminated") =>
            /\ ready_queue' = ready_queue
            /\ ~pcb_heap'[disp_out_pcb].turnaround_time_is_recording]_vars
    /\ [](drv_pc = "stats" =>
            \A id \in DOMAIN mem_pcb_map :
                Halted(mem_pcb_map[id])
                    => ~pcb_heap[mem_pcb_map[id]].turnaround_time_is_recording)


(***************************************************************************)
(* Properties of Cpu::execute_process and of the run gate                  *)
(***************************************************************************)
\* the step of the dispatcher that ends the outgoing half of execute_process
SavesOutgoing == disp_pc = "exec" /\ disp_pc' = "load"

\* what an instruction reads and writes
LoadedContext ==
    <<cpu_registers, cpu_program_counter, cpu_mem_start_address, cpu_cache, mem_data>>

\* C22: execute_process is atomic with respect to the CPU thread.  The registers
\* and the program counter copied into the outgoing PCB are the CPU's, which
\* have not changed since the interrupt; the CPU thread executes nothing from
\* the dispatcher's return from await_process_interrupt to the load of the
\* incoming process; and the registers and program counter of a PCB are written
\* by no step but the save of the outgoing PCB.
C22_ExecuteProcessAtomic ==
    /\ [][(SavesOutgoing /\ disp_out_pcb # 0) =>
              /\ pcb_heap'[disp_out_pcb].registers = cpu_registers
              /\ pcb_heap'[disp_out_pcb].program_counter = cpu_program_counter]_vars
    /\ [][proc_should_interrupt =>
              \/ cpu_registers' = cpu_registers /\ cpu_program_counter' = cpu_program_counter
              \/ disp_pc = "load" /\ disp_pc' = "dispose"]_vars
    /\ [][(disp_pc = "exec" \/ disp_pc = "load") =>
              /\ cpu_pc \notin {"run", "dma_wait"}
              /\ \/ LoadedContext' = LoadedContext
                 \/ disp_pc = "load" /\ disp_pc' = "dispose"]_vars
    /\ [][\A h \in DOMAIN pcb_heap :
              (\/ pcb_heap'[h].registers # pcb_heap[h].registers
               \/ pcb_heap'[h].program_counter # pcb_heap[h].program_counter)
                  => SavesOutgoing /\ h = disp_out_pcb]_vars

\* the context of a process that computed something has been saved, and the
\* next process is about to be loaded
C22_Witness ==
    /\ disp_pc = "load"
    /\ disp_out_pcb # 0
    /\ pcb_heap[disp_out_pcb].program_counter > 1
    /\ pcb_heap[disp_out_pcb].registers = cpu_registers
    /\ \E i \in DOMAIN cpu_registers : cpu_registers[i] # 0


(***************************************************************************)
(* Properties of an instruction the CPU cannot execute                     *)
(***************************************************************************)
\* the panic messages of an opcode that its instruction type does not have, and
\* of a division by zero
InstructionFaults ==
    {"Execute error, invalid opcode for arithmetic instruction",
     "Execute error, invalid opcode for conditional branch or immediate instruction",
     "Execute error, invalid opcode for unconditional jump instruction",
     "Execute error, invalid opcode for I/O jump instruction",
     "attempt to divide by zero"}

\* the CPU thread has panicked in the instruction it fetched last, with one of
\* these messages
InstructionFaulted ==
    /\ cpu_pc = "panicked"
    /\ cpu_program_counter \in 1..Len(cpu_cache)
    /\ Execute([program_counter |-> cpu_program_counter, registers |-> cpu_registers,
                mem_start_address |-> cpu_mem_start_address, memory |-> mem_data,
                memory_poisoned |-> mem_poisoned,
                should_interrupt |-> proc_should_interrupt,
                interrupt_type |-> proc_interrupt_type, dma |-> dma_command,
                fault |-> "none", overflowed |-> FALSE],
               Decode(At(cpu_cache, cpu_program_counter - 1))).fault \in InstructionFaults

\* C23: an instruction with an opcode its type does not have, or a division by
\* zero, aborts the whole simulation: after it no process is dispatched, the
\* Driver's await_all_procs_finished does not return as if the process had
\* completed, and neither the dispatcher (in await_process_interrupt) nor the
\* Driver (in await_all_procs_finished) stays blocked forever: where no thread
\* can take a step any more, neither of them is waiting.
C23_InstructionFaultAborts ==
    /\ [][InstructionFaulted => loaded_log' = loaded_log]_vars
    /\ [][InstructionFaulted => ~(drv_pc = "await" /\ drv_pc' = "stats")]_vars
    /\ []((InstructionFaulted /\ ~ENABLED NextSys) => (disp_pc # "await" /\ drv_pc # "await"))


(***************************************************************************)
(* Properties of the end of a batch                                        *)
(***************************************************************************)
\* the output and temp regions of a program's image on the Disk
DiskOutputAndTemp(data, program_info) ==
    Slice(data,
          program_info.data_start_idx + program_info.instruction_buffer_size
              + program_info.in_buffer_size,
          program_info.data_start_idx + program_info.instruction_buffer_size
              + program_info.in_buffer_size + program_info.out_buffer_size
              + program_info.temp_buffer_size)

\* C24: at the end of a batch the Driver has the output and temp regions of every
\* resident program flushed from Memory to the Disk before Memory is cleared, so
\* that after Driver::start the Disk image of an executed program holds the
\* output words its process stored (7, for a process that ran OutputCode to its
\* HLT).
C24_FlushBeforeDump ==
    /\ [][(drv_pc = "core_dump" /\ drv_pc' = "loop") =>
              \A id \in DOMAIN mem_pcb_map :
                  DiskOutputAndTemp(disk_data', disk_program_map[id])
                      = Slice(mem_data, pcb_heap[mem_pcb_map[id]].mem_out_start_address,
                              pcb_heap[mem_pcb_map[id]].mem_end_address)]_vars
    /\ [](drv_pc = "done" =>
              \A h \in DOMAIN pcb_heap :
                  LET program_info == disk_program_map[pcb_heap[h].id]
                  IN  (/\ Halted(h)
                       /\ Slice(disk_data, program_info.data_start_idx,
                                program_info.data_start_idx + Len(OutputCode)) = OutputCode)
                          => DiskOutputAndTemp(disk_data, program_info)[1] = 7)


(***************************************************************************)
(* Properties of the shutdown                                              *)
(***************************************************************************)
\* the positions of a thread that has left its loop
Ended == {"exited", "panicked"}

\* C25: once the ShortTermScheduler and the Cpu are dropped, which sets the
\* flags of the three loops, every background thread comes to see its flag and
\* exits, also one parked on the run gate, on the empty DMA channel or on the
\* idle signal: where no thread can take a step any more, every thread whose
\* flag is set has left its loop.
C25_CooperativeShutdown ==
    [](~ENABLED NextSys =>
           /\ dispatch_should_terminate => disp_pc \in Ended
           /\ cycle_should_terminate => cpu_pc \in Ended
           /\ dma_should_terminate => dma_pc \in Ended)


(***************************************************************************)
(* Properties of the run of JOB 1                                          *)
(***************************************************************************)
\* the regions of the block the test reads back: instructions, input, output, temp
JobInstructions(program_data) == Slice(program_data, 0, 23)
JobInput(program_data) == Slice(program_data, 23, 43)
JobOutput(program_data) == Slice(program_data, 43, 55)
JobTemp(program_data) == Slice(program_data, 55, 67)

\* C26: execute_process(Some(pcb), None) then await_process_interrupt runs the
\* program from instruction 0 to its HLT.  For JOB 1 the instruction and input
\* regions are never written; with the test's input the first output word read
\* back is 0xE4 (the rest of the region 0) and the temp region is
\* 6, 0x2C, 0x45, 1, 7, 0, 1, 5, 0xA, 0x55, 0, 0.
C26_Job1EndToEnd ==
    /\ [][drv_pc # "job_create" =>
              /\ JobInstructions(mem_data') = JobInstructions(mem_data)
              /\ JobInput(mem_data') = JobInput(mem_data)]_vars
    /\ [][(drv_pc = "job_execute" /\ drv_pc' = "job_await") => cpu_program_counter' = 0]_vars
    /\ [](drv_pc = "job_done" =>
              LET program_data == last_call.ids
              IN  /\ Halted(Head(drv_process_ids))
                  /\ At(cpu_cache, cpu_program_counter - 1) = HLT_WORD
                  /\ cpu_program_counter = 23
                  /\ JobInstructions(program_data) = Job1Code
                  /\ JobInput(program_data) \in JobInputs
                  /\ JobInput(program_data) = Job1Input =>
                         /\ JobOutput(program_data) = <<228>> \o Zeros(11)
                         /\ JobTemp(program_data) = <<6, 44, 69, 1, 7, 0, 1, 5, 10, 85, 0, 0>>)

\* the test has read back the block of the run on its own input
C26_Witness ==
    /\ drv_pc = "job_done"
    /\ JobInput(last_call.ids) = Job1Input
    /\ At(last_call.ids, 43) = 228


(***************************************************************************)
(* Properties of the run gate                                              *)
(***************************************************************************)
\* the dispatcher is inside Cpu::execute_process
InExecuteProcess == disp_pc = "exec" \/ disp_pc = "load"

\* C27: the dispatcher loads one process at a time.  execute_process is called,
\* and runs, only with the run gate INTERRUPTED, and a process is loaded only
\* after the process loaded before it has raised its interrupt.
C27_ExecuteOnlyWhenInterrupted ==
    /\ [](InExecuteProcess => proc_should_interrupt)
    /\ [][loaded_log' # loaded_log =>
              /\ proc_should_interrupt
              /\ loaded_log = << >> \/ Halted(loaded_log[Len(loaded_log)])]_vars

\* the dispatcher calls execute_process for a second process
C27_Witness ==
    /\ disp_pc = "exec"
    /\ Len(loaded_log) = 1
    /\ disp_in_pcb # loaded_log[1]
    /\ disp_out_pcb = loaded_log[1]

\* the instruction the CPU thread executed last
ExecutedInstruction == Decode(At(cpu_cache, cpu_program_counter - 1))

\* C28: the CPU thread fetches and executes only while the run gate is RUNNING.
\* HLT sets the interrupt type Terminated and the gate INTERRUPTED; from then
\* on, until execute_process loads a process, no instruction is executed (the
\* word after the HLT is not), no command goes to the DMA thread, and the
\* program counter and the registers stay as they are.
C28_RunsOnlyWhileRunning ==
    /\ [][(CpuCycle \/ CpuDmaReply \/ DmaServe) => ~proc_should_interrupt]_vars
    /\ [][(CpuCycle /\ cpu_pc' # "panicked"
              /\ CurrentInstruction.instr_type = 2 /\ CurrentInstruction.opcode = 18) =>
              /\ proc_should_interrupt'
              /\ proc_interrupt_type' = "Terminated"]_vars
    /\ [][(proc_should_interrupt /\ ~(disp_pc = "load" /\ disp_pc' = "dispose")) =>
              /\ proc_should_interrupt'
              /\ cpu_program_counter' = cpu_program_counter
              /\ cpu_registers' = cpu_registers
              /\ dma_command' = dma_command]_vars
    /\ [](cpu_pc \in {"run", "dma_wait"} => ~proc_should_interrupt)

\* the CPU is parked after the HLT of a program that has a word after its HLT
C28_Witness ==
    /\ proc_should_interrupt
    /\ cpu_pc = "gate"
    /\ cpu_program_counter < Len(cpu_cache)
    /\ cpu_program_counter > 0
    /\ ExecutedInstruction.opcode = 18
    /\ cpu_registers[1] = 7


(***************************************************************************)
(* Properties of the data accesses                                         *)
(***************************************************************************)
\* the instruction is ST, LW (conditional branch or immediate type), RD, WR (I/O type)
IsST(instruction) == instruction.instr_type = 1 /\ instruction.opcode = 2
IsLW(instruction) == instruction.instr_type = 1 /\ instruction.opcode = 3
IsRD(instruction) == instruction.instr_type = 3 /\ instruction.opcode = 0
IsWR(instruction) == instruction.instr_type = 3 /\ instruction.opcode = 1

\* the word of Memory a data instruction accesses: the pointer register is
\* reg_1 for LW and reg_2 for the others; register 0 is no pointer
AccessedIndex(instruction) ==
    LET pointer == IF IsLW(instruction) THEN instruction.reg_1_num
                   ELSE instruction.reg_2_num
    IN  IF pointer = 0
        THEN instruction.address \div 4 + cpu_mem_start_address
        ELSE AsUsizeDiv4(cpu_registers[pointer]) + cpu_mem_start_address

\* a step of the CPU thread that executes its instruction without a panic
Executes == CpuCycle /\ cpu_pc' # "panicked"

DmaOutstanding == dma_command.kind # "None" \/ dma_response.ready

\* the process of the CPU runs the program that stores 7 with WR and reads the
\* same word back with RD
RunsStoreThenRead ==
    /\ Len(cpu_cache) = 4
    /\ IsWR(Decode(At(cpu_cache, 1)))
    /\ IsRD(Decode(At(cpu_cache, 2)))
    /\ Decode(At(cpu_cache, 1)).address = Decode(At(cpu_cache, 2)).address

\* C30: the DMA requests are synchronous.  At most one command or reply is on
\* its way, and only while the CPU thread waits for it: the CPU thread fetches
\* no instruction until the DMA thread has applied the command to Memory and
\* replied.  Hence the word a WR stored is the value a later RD of the same
\* address, by the same process, puts into its register.
C30_DmaSynchronous ==
    /\ [](DmaOutstanding => cpu_pc = "dma_wait")
    /\ [](~(dma_command.kind # "None" /\ dma_response.ready))
    /\ [][CpuCycle => ~DmaOutstanding]_vars
    /\ [][(CpuDmaReply /\ cpu_pc' # "panicked" /\ RunsStoreThenRead
              /\ cpu_program_counter = 3) =>
              cpu_registers'[2] = 7]_vars

(***************************************************************************)
(* The kernel running programs that jump, branch and access their data     *)
(***************************************************************************)
\* the instruction word of JMP: type 10, opcode 0x14, the address in bits 8-23
Jmp(address) == Word(37888 + address \div 256, (address % 256) * 256)

\* two programs of 14 words each.  The first skips a ST with a JMP and stores
\* and loads word 10 of the program through a pointer register and directly; the
\* second skips a HLT with a taken branch, writes and reads words 10 and 11
\* through the DMA thread, and passes a branch that is not taken.
XlatCodes ==
    {\* LDI r1 7; LDI r2 40; JMP 16; ST r1 -> 44; ST r1 -> [r2]; LW r3 <- [r2];
     \* LW r4 <- 40; HLT
     <<Instr(1, 15, 0, 1, 7), Instr(1, 15, 0, 2, 40), Jmp(16), Instr(1, 2, 1, 0, 44),
       Instr(1, 2, 1, 2, 0), Instr(1, 3, 2, 3, 0), Instr(1, 3, 0, 4, 40), HLT_WORD>>,
     \* LDI r1 5; BNE r1 r0 -> 12; HLT; LDI r2 44; WR r1 -> 40; RD r3 <- 40;
     \* WR r3 -> [r2]; RD r4 <- [r2]; BEQ r1 r0 -> 0; HLT
     <<Instr(1, 15, 0, 1, 5), Instr(1, 22, 1, 0, 12), HLT_WORD, Instr(1, 15, 0, 2, 44),
       Instr(3, 1, 1, 0, 40), Instr(3, 0, 3, 0, 40), Instr(3, 1, 3, 2, 0),
       Instr(3, 0, 4, 2, 0), Instr(1, 21, 1, 0, 0), HLT_WORD>>}

\* the two programs share one batch: the first is loaded at word 0 of Memory,
\* the second at word 14
XlatCatalogs ==
    {[i \in 1..2 |-> SysProgram(i, i, IF i = 1 THEN code_1 ELSE code_2, 14)] :
        code_1 \in XlatCodes, code_2 \in XlatCodes}

InitXlat ==
    \E progs \in XlatCatalogs, alg \in {"Fifo", "Priority"} :
        InitKernel(progs, alg, "enqueue", "top", "top")

SpecXlat == InitXlat /\ [][NextSys]_vars

(***************************************************************************)
(* Properties of the address translation                                   *)
(***************************************************************************)
\* the branch instruction is taken on the registers of the CPU
BranchTaken(instruction) ==
    LET reg_1 == cpu_registers[instruction.reg_1_num]
        reg_2 == cpu_registers[instruction.reg_2_num]
    IN  /\ instruction.instr_type = 1
        /\ \/ instruction.opcode = 21 /\ reg_1 = reg_2
           \/ instruction.opcode = 22 /\ reg_1 # reg_2
           \/ instruction.opcode = 23 /\ reg_1 = 0
           \/ instruction.opcode = 24 /\ reg_1 # 0
           \/ instruction.opcode = 25 /\ reg_1 # 0

\* C31: every data access of ST, LW, RD and WR uses the physical word index
\* address / 4 + mem_start of the loaded process, where address is the 16-bit
\* address field of the instruction or, in pointer mode, the content of the
\* pointer register; a taken branch or JMP sets the program counter to
\* address / 4, mem_start not added.
C31_AddressTranslation ==
    [][Executes =>
          LET instruction == CurrentInstruction
              pointer == IF IsLW(instruction) THEN instruction.reg_1_num
                         ELSE instruction.reg_2_num
              address == IF pointer = 0 THEN instruction.address
                         ELSE cpu_registers[pointer]
              word_index == address \div 4 + cpu_mem_start_address
          IN  /\ IsST(instruction) =>
                    mem_data' = [mem_data EXCEPT ![word_index + 1] =
                                    cpu_registers[instruction.reg_1_num]]
              /\ IsLW(instruction) =>
                    cpu_registers'[instruction.reg_2_num] = mem_data[word_index + 1]
              /\ (IsRD(instruction) \/ IsWR(instruction)) =>
                    dma_command'.address = word_index
              /\ (BranchTaken(instruction)
                     \/ (instruction.instr_type = 2 /\ instruction.opcode = 20)) =>
                    cpu_program_counter' = instruction.address \div 4]_vars

\* the process loaded second, at word 14 of Memory, has jumped over its first ST
\* and stored 7 in word 10 of its own region, and loaded it back twice
C31_Witness ==
    /\ Len(loaded_log) = 2
    /\ cpu_mem_start_address = 14
    /\ proc_should_interrupt
    /\ ExecutedInstruction.opcode = 18
    /\ mem_data[14 + 10 + 1] = 7
    /\ mem_data[14 + 11 + 1] # 7
    /\ cpu_registers[3] = 7
    /\ cpu_registers[4] = 7

(***************************************************************************)
(* Cpu::decode on its own                                                  *)
(***************************************************************************)
\* instruction words of every type: opcodes, register numbers and low halves
\* with their first and their last bits set
DecodeWords ==
    {Word(instr_type * 16384 + opcode * 256 + reg_1_num * 16 + reg_2_num, low) :
        instr_type \in 0..3, opcode \in {0, 18, 33, 63}, reg_1_num \in {0, 9, 15},
        reg_2_num \in {0, 6, 15}, low \in {0, 1, 4092, 32768, 49407, 65535}}

\* a Cpu as Cpu::new leaves it
InitDecode == InitKernel(<< >>, "Fifo", "off", "off", "off")

\* Cpu::decode(instruction), called once: the word and the DecodedInstruction
\* returned are recorded, the fields in the order of the struct
DecodeWord ==
    /\ last_call.op = "new"
    /\ \E instruction \in DecodeWords :
          LET result == Decode(instruction)
          IN  last_call' = [op |-> "decode", ok |-> TRUE, err |-> "none",
                            ids |-> <<instruction, result.instr_type, result.opcode,
                                      result.reg_1_num, result.reg_2_num, result.reg_3_num,
                                      result.address>>]
    /\ UNCHANGED <<diskVars, memVars, ltsVars, enqueued_log, admitted_log, writes_made,
                   panicked, sysVars>>

NextDecode == DecodeWord

SpecDecode == InitDecode /\ [][NextDecode]_vars

\* bits first..(first + length - 1) of the 32-bit word, bit 0 the most
\* significant: the word is held as the integer of its two's complement
BitsOf(word, first, length) == (word \div (2 ^ (32 - first - length))) % (2 ^ length)

NoDispatchToCome ==
    /\ drv_pc \in {"done", "dropped"}
    /\ ready_queue = << >>
    /\ all_procs_are_finished
    /\ disp_pc \in {"top", "gate", "exited"}

\* C33: every burst started when a PCB is loaded as incoming is ended exactly
\* once, when that same PCB is saved as outgoing, and end_record_burst_time is
\* never called on a PCB whose burst is not recording, whatever the sequence of
\* dispatches, the first dispatch of a later batch included.  Once no dispatch
\* is to come, every PCB that was loaded has its one burst ended.
C33_BurstBracketing ==
    /\ [][(DispExecute /\ ~cpu_poisoned /\ disp_out_pcb # 0) =>
              /\ pcb_heap[disp_out_pcb].burst_time_is_recording
              /\ ~pcb_heap'[disp_out_pcb].burst_time_is_recording
              /\ pcb_heap'[disp_out_pcb].burst_count = pcb_heap[disp_out_pcb].burst_count + 1
              /\ disp_pc' = "load"]_vars
    /\ [][\A h \in DOMAIN pcb_heap :
              pcb_heap'[h].burst_count # pcb_heap[h].burst_count =>
                  (DispExecute /\ h = disp_out_pcb)]_vars
    /\ [](NoDispatchToCome =>
              \A i \in DOMAIN loaded_log :
                  /\ ~pcb_heap[loaded_log[i]].burst_time_is_recording
                  /\ pcb_heap[loaded_log[i]].burst_count = 1)

(***************************************************************************)
(* The kernel running programs that subtract and divide                    *)
(***************************************************************************)
\* programs of one process each; r3 holds 9 before SUB and DIV are to write it
ArithCodes ==
    {\* LDI r1 3; LDI r2 5; LDI r3 9; SUB r3 = r1 - r2; HLT
     <<Instr(1, 15, 0, 1, 3), Instr(1, 15, 0, 2, 5), Instr(1, 15, 0, 3, 9),
       Instr(0, 6, 1, 2, 12288), HLT_WORD>>,
     \* LDI r1 5; LDI r2 3; LDI r3 9; SUB r3 = r1 - r2; HLT
     <<Instr(1, 15, 0, 1, 5), Instr(1, 15, 0, 2, 3), Instr(1, 15, 0, 3, 9),
       Instr(0, 6, 1, 2, 12288), HLT_WORD>>,
     \* LDI r1 6; LDI r3 9; DIV r3 = r1 / r2, with r2 = 0; HLT
     <<Instr(1, 15, 0, 1, 6), Instr(1, 15, 0, 3, 9), Instr(0, 8, 1, 2, 12288), HLT_WORD>>,
     \* LDI r1 6; LDI r2 3; LDI r3 9; DIV r3 = r1 / r2; HLT
     <<Instr(1, 15, 0, 1, 6), Instr(1, 15, 0, 2, 3), Instr(1, 15, 0, 3, 9),
       Instr(0, 8, 1, 2, 12288), HLT_WORD>>,
     \* LDI r1 6; DIVI r1 = r1 / 0; HLT
     <<Instr(1, 15, 0, 1, 6), Instr(1, 14, 0, 1, 0), HLT_WORD>>,
     \* LDI r1 6; DIVI r1 = r1 / 3; HLT
     <<Instr(1, 15, 0, 1, 6), Instr(1, 14, 0, 1, 3), HLT_WORD>>,
     \* LDI r1 6; DIVI r1 = r1 / 3; WR r1 -> 28; RD r2 <- 28; HLT
     <<Instr(1, 15, 0, 1, 6), Instr(1, 14, 0, 1, 3), Instr(3, 1, 1, 0, 28),
       Instr(3, 0, 2, 0, 28), HLT_WORD>>}

ArithCatalogs == {<<SysProgram(1, 1, code, 9)>> : code \in ArithCodes}

InitArith ==
    \E progs \in ArithCatalogs, alg \in {"Fifo", "Priority"} :
        InitKernel(progs, alg, "enqueue", "top", "top")

SpecArith == InitArith /\ [][NextSys]_vars

(***************************************************************************)
(* Properties of the arithmetic                                            *)
(***************************************************************************)
\* the CPU thread fetches, decodes and executes an instruction
FetchesAndExecutes ==
    CpuCycle /\ ~cpu_poisoned /\ cpu_program_counter < Len(cpu_cache)

\* SUB with r1 < r2; DIV with r2 = 0 or DIVI with the immediate 0
SubUnderflows(instruction) ==
    /\ instruction.instr_type = 0 /\ instruction.opcode = 6
    /\ cpu_registers[instruction.reg_1_num] < cpu_registers[instruction.reg_2_num]
DividesByZero(instruction) ==
    \/ /\ instruction.instr_type = 0 /\ instruction.opcode = 8
       /\ cpu_registers[instruction.reg_2_num] = 0
    \/ /\ instruction.instr_type = 1 /\ instruction.opcode = 14
       /\ instruction.address = 0

\* C34 as claimed: SUB with r1 < r2 is a fatal fault and DIV or DIVI with a
\* zero divisor is a fatal fault, and in neither case is the destination
\* register written.
C34_ArithmeticTraps ==
    [][(FetchesAndExecutes
           /\ (SubUnderflows(CurrentInstruction) \/ DividesByZero(CurrentInstruction))) =>
           /\ cpu_pc' = "panicked"
           /\ cpu_registers' = cpu_registers]_vars

\* C34 as the code has it: DIV or DIVI with a zero divisor is a fatal fault and
\* the destination register is not written.  SUB with r1 < r2 is a fatal fault
\* that writes no register in a build with overflow checks; in a build without
\* them the destination register gets the difference wrapped to 32 bits (the
\* word that the negative integer r1 - r2 stands for) and the process goes on.
C34_DivTrapsSubTrapsOrWraps ==
    /\ [][(FetchesAndExecutes /\ DividesByZero(CurrentInstruction)) =>
              /\ cpu_pc' = "panicked"
              /\ cpu_registers' = cpu_registers]_vars
    /\ [][(FetchesAndExecutes /\ SubUnderflows(CurrentInstruction)) =>
              \/ /\ cpu_pc' = "panicked"
                 /\ cpu_registers' = cpu_registers
              \/ /\ cpu_pc' = "top"
                 /\ cpu_registers' =
                        [cpu_registers EXCEPT ![CurrentInstruction.reg_3_num] =
                            cpu_registers[CurrentInstruction.reg_1_num]
                                - cpu_registers[CurrentInstruction.reg_2_num]]]_vars

\* SUB r3 = 3 - 5 has ended the CPU thread, and r3 holds the 9 it held before
C34_Witness ==
    /\ cpu_pc = "panicked"
    /\ cpu_program_counter > 0
    /\ ExecutedInstruction.instr_type = 0
    /\ ExecutedInstruction.opcode = 6
    /\ cpu_registers[1] = 3
    /\ cpu_registers[2] = 5
    /\ cpu_registers[3] = 9

(***************************************************************************)
(* Properties of the dispatcher's pop                                      *)
(***************************************************************************)
\* C35: whenever the dispatcher thread has passed its idle gate (it saw the idle
\* flag false) and takes the scheduler's mutex to pop, the ready queue is not
\* empty: the pop never fails, however the schedule_process calls interleave
\* with the dispatcher's iterations.
C35_PopNeverFails ==
    /\ [](disp_pc = "pop" => ready_queue # << >>)
    /\ [][DispPop =>
             /\ ready_queue # << >>
             /\ disp_pc' = "enter"
             /\ Len(ready_queue') = Len(ready_queue) - 1]_vars

\* the dispatcher has loaded one process and passed its gate again, and one PCB
\* is in the ready queue
C35_Witness ==
    /\ disp_pc = "pop"
    /\ Len(loaded_log) = 1
    /\ Len(ready_queue) = 1

(***************************************************************************)
(* Properties of the interrupts                                            *)
(***************************************************************************)
\* no handle occurs twice in the sequence
NoDuplicates(s) == \A i, j \in DOMAIN s : s[i] = s[j] => i = j

\* C36: the only interrupt state the CPU ever raises is Terminated:
\* await_process_interrupt never returns Ready, Waiting or Running.  So the
\* dispatcher never puts an outgoing PCB back into the ready queue, and every
\* PCB passed to schedule_process is loaded onto the CPU exactly once: never
\* twice, and once when no dispatch is to come.
C36_OnlyTerminatedRaised ==
    /\ [](proc_interrupt_type = "Terminated")
    /\ [][DispAwaitInterrupt => disp_out_pcb_state' = "Terminated"]_vars
    /\ [][DispDispose => (ready_queue' = ready_queue /\ disp_pc' = "top")]_vars
    /\ [](/\ NoDuplicates(loaded_log)
          /\ NoDuplicates(scheduled_log)
          /\ Range(loaded_log) \subseteq Range(scheduled_log))
    /\ [](NoDispatchToCome => Range(loaded_log) = Range(scheduled_log))

\* the dispatcher has disposed of the first process, whose interrupt was
\* Terminated, after loading the second and last one
C36_Witness ==
    /\ disp_pc = "top"
    /\ Len(scheduled_log) = 2
    /\ loaded_log = scheduled_log
    /\ disp_out_pcb = loaded_log[1]
    /\ disp_out_pcb_state = "Terminated"
    /\ ready_queue = << >>
    /\ drv_pc = "done"

(***************************************************************************)
(* The four threads, lock by lock.  Each thread's position names the lock  *)
(* it is about to take (or the condition variable it waits on); a step     *)
(* takes the lock when it is free and runs the code up to the next lock    *)
(* the thread has to take, or to the release of all it holds.  Which locks *)
(* a thread holds follows from its position.                               *)
(***************************************************************************)
\* programs of 8 words each: LDI r1 7; ST r1 -> word 6; WR r1 -> word 7; HLT and
\* LW r2 <- word 6; RD r3 <- word 7; HLT
LockCodes ==
    <<  <<Instr(1, 15, 0, 1, 7), Instr(1, 2, 1, 0, 24), Instr(3, 1, 1, 0, 28), HLT_WORD>>,
        <<Instr(1, 3, 0, 2, 24), Instr(3, 0, 3, 0, 28), HLT_WORD>>  >>

\* two programs that share one batch; a program that fills Memory but for 8
\* words, followed by one that fits the rest and one for the next batch
LockCatalogs ==
    {[i \in 1..2 |-> SysProgram(i, i, LockCodes[i], 8)],
     [i \in 1..3 |-> IF i = 1 THEN SysProgram(1, 1, <<HLT_WORD>>, 1014)
                     ELSE SysProgram(i, i, LockCodes[i - 1], 8)]}

InitLocks ==
    \E progs \in LockCatalogs, alg \in {"Fifo", "Priority"} :
        InitKernel(progs, alg, "enqueue", "clone_sts", "clone_res")

\* the variables the threads work on, as one record
LkNow ==
    [program_queue |-> program_queue, unload_list |-> unload_list,
     mem_pcb_map |-> mem_pcb_map, mem_data |-> mem_data,
     mem_current_data_idx |-> mem_current_data_idx, pcb_heap |-> pcb_heap,
     ready_queue |-> ready_queue, current_pcb |-> current_pcb,
     all_procs_are_finished |-> all_procs_are_finished,
     cpu_cache |-> cpu_cache, cpu_program_counter |-> cpu_program_counter,
     cpu_mem_start_address |-> cpu_mem_start_address, cpu_registers |-> cpu_registers,
     proc_should_interrupt |-> proc_should_interrupt,
     proc_interrupt_type |-> proc_interrupt_type,
     dma_command |-> dma_command, dma_response |-> dma_response, dma_pc |-> dma_pc,
     drv_pc |-> drv_pc, drv_process_ids |-> drv_process_ids,
     process_stats |-> process_stats,
     disp_pc |-> disp_pc, disp_in_pcb |-> disp_in_pcb, disp_out_pcb |-> disp_out_pcb,
     disp_out_pcb_state |-> disp_out_pcb_state, cpu_pc |-> cpu_pc,
     scheduled_log |-> scheduled_log, loaded_log |-> loaded_log]

\* the step to the state n; the Disk, the observations of the sequential
\* callers, the poison flags and the termination flags stay as they are
LkSet(n) ==
    /\ program_queue' = n.program_queue
    /\ unload_list' = n.unload_list
    /\ mem_pcb_map' = n.mem_pcb_map
    /\ mem_data' = n.mem_data
    /\ mem_current_data_idx' = n.mem_current_data_idx
    /\ pcb_heap' = n.pcb_heap
    /\ ready_queue' = n.ready_queue
    /\ current_pcb' = n.current_pcb
    /\ all_procs_are_finished' = n.all_procs_are_finished
    /\ cpu_cache' = n.cpu_cache
    /\ cpu_program_counter' = n.cpu_program_counter
    /\ cpu_mem_start_address' = n.cpu_mem_start_address
    /\ cpu_registers' = n.cpu_registers
    /\ proc_should_interrupt' = n.proc_should_interrupt
    /\ proc_interrupt_type' = n.proc_interrupt_type
    /\ dma_command' = n.dma_command
    /\ dma_response' = n.dma_response
    /\ dma_pc' = n.dma_pc
    /\ drv_pc' = n.drv_pc
    /\ drv_process_ids' = n.drv_process_ids
    /\ process_stats' = n.process_stats
    /\ disp_pc' = n.disp_pc
    /\ disp_in_pcb' = n.disp_in_pcb
    /\ disp_out_pcb' = n.disp_out_pcb
    /\ disp_out_pcb_state' = n.disp_out_pcb_state
    /\ cpu_pc' = n.cpu_pc
    /\ scheduled_log' = n.scheduled_log
    /\ loaded_log' = n.loaded_log
    /\ UNCHANGED <<diskVars, obsVars, scheduling_alg, poisonVars, dropVars>>

\* the locks: the scheduler's mutex, the mutex of the idle flag, the mutex
\* around the Cpu, the CpuResources mutex, the mutex of the run gate, the mutex
\* of the PCB h, and the Memory's lock taken for reading or for writing;
\* DmaReply is the reply the CPU thread receives
StsMutex == <<"sts", 0>>
IdleMutex == <<"idle", 0>>
CpuMutex == <<"cpu", 0>>
ResourcesMutex == <<"resources", 0>>
GateMutex == <<"gate", 0>>
PcbMutex(h) == <<"pcb", h>>
MemRead == <<"mem_read", 0>>
MemWrite == <<"mem_write", 0>>
DmaReply == <<"dma_reply", 0>>
NoLock == <<"none", 0>>


\* PriorityQueue::push on a heap that is not empty: BinaryHeap::push compares
\* the new PCB with its parent, and Ord::cmp locks both
PushCompares == scheduling_alg = "Priority" /\ ready_queue # << >>

\* the parent of the PCB pushed: the root, in a heap of at most three PCBs
PushParent == ready_queue[CHOOSE i \in PopCandidates(scheduling_alg, ready_queue) : TRUE]

\* the locks the Driver thread holds
HeldByDriver ==
    CASE drv_pc = "sched_sts" -> {MemRead}
      [] drv_pc = "sched_idle" -> {MemRead, StsMutex}
      [] drv_pc = "push_a" -> {MemRead, StsMutex}
      [] drv_pc = "push_b" ->
             {MemRead, StsMutex, PcbMutex(mem_pcb_map[Head(drv_process_ids)])}
      [] drv_pc = "sort_a" -> {MemRead}
      [] drv_pc = "sort_b" -> {MemRead, PcbMutex(drv_process_ids[1])}
      [] OTHER -> {}

\* the lock the Driver thread is about to take
WantedByDriver ==
    CASE drv_pc = "step" -> MemWrite
      [] drv_pc = "sched_read" -> MemRead
      [] drv_pc = "sched_sts" -> StsMutex
      [] drv_pc = "sched_idle" -> IdleMutex
      [] drv_pc = "push_a" -> PcbMutex(mem_pcb_map[Head(drv_process_ids)])
      [] drv_pc = "push_b" -> PcbMutex(PushParent)
      [] drv_pc = "await_sts" -> StsMutex
      [] drv_pc = "await_idle" -> IdleMutex
      [] drv_pc = "stats_read" -> MemRead
      [] drv_pc = "sort_a" -> PcbMutex(drv_process_ids[1])
      [] drv_pc = "sort_b" -> PcbMutex(drv_process_ids[2])
      [] drv_pc = "stats_pcb" -> PcbMutex(drv_process_ids[1])
      [] drv_pc = "dump" -> MemWrite
      [] OTHER -> NoLock

\* the locks the dispatcher thread holds: the mutex around the Cpu from
\* cpu.lock() to the end of dispatch
HeldByDispatcher ==
    CASE disp_pc \in {"await_res", "await_gate", "await_wait", "in_state", "exec_res",
                      "dispose_sts"} -> {CpuMutex}
      [] disp_pc = "await_type" -> {CpuMutex, GateMutex}
      [] disp_pc \in {"exec_out", "exec_in"} -> {CpuMutex, ResourcesMutex}
      [] disp_pc \in {"exec_mem", "exec_gate"} ->
             {CpuMutex, ResourcesMutex, PcbMutex(disp_in_pcb)}
      [] disp_pc = "dispose_idle" -> {CpuMutex, StsMutex}
      [] OTHER -> {}

WantedByDispatcher ==
    CASE disp_pc = "clone_sts" -> StsMutex
      [] disp_pc = "idle_lock" -> IdleMutex
      [] disp_pc = "pop" -> StsMutex
      [] disp_pc = "cpu_lock" -> CpuMutex
      [] disp_pc = "await_res" -> ResourcesMutex
      [] disp_pc = "await_gate" -> GateMutex
      [] disp_pc = "await_type" -> ResourcesMutex
      [] disp_pc = "in_state" -> PcbMutex(disp_in_pcb)
      [] disp_pc = "exec_res" -> ResourcesMutex
      [] disp_pc = "exec_out" -> PcbMutex(disp_out_pcb)
      [] disp_pc = "exec_in" -> PcbMutex(disp_in_pcb)
      [] disp_pc = "exec_mem" -> MemRead
      [] disp_pc = "exec_gate" -> GateMutex
      [] disp_pc = "dispose_sts" -> StsMutex
      [] disp_pc = "dispose_idle" -> IdleMutex
      [] OTHER -> NoLock

\* the CPU thread holds the CpuResources mutex from the fetch to the end of cycle
HeldByCpuThread ==
    IF cpu_pc \in {"execute", "store", "load", "signal", "dma_wait"}
    THEN {ResourcesMutex} ELSE {}

WantedByCpuThread ==
    CASE cpu_pc = "clone_res" -> ResourcesMutex
      [] cpu_pc = "gate_lock" -> GateMutex
      [] cpu_pc = "fetch" -> ResourcesMutex
      [] cpu_pc = "store" -> MemWrite
      [] cpu_pc = "load" -> MemRead
      [] cpu_pc = "signal" -> GateMutex
      [] cpu_pc = "dma_wait" -> DmaReply
      [] OTHER -> NoLock

\* the DMA thread holds no lock from one step to the next
WantedByDmaThread ==
    CASE dma_pc = "fetch" -> MemRead
      [] dma_pc = "store" -> MemWrite
      [] OTHER -> NoLock

Threads == {"driver", "dispatcher", "cpu", "dma"}

Held(t) ==
    CASE t = "driver" -> HeldByDriver
      [] t = "dispatcher" -> HeldByDispatcher
      [] t = "cpu" -> HeldByCpuThread
      [] OTHER -> {}

Wanted(t) ==
    CASE t = "driver" -> WantedByDriver
      [] t = "dispatcher" -> WantedByDispatcher
      [] t = "cpu" -> WantedByCpuThread
      [] OTHER -> WantedByDmaThread

\* the thread t can take the lock: a mutex no other thread holds; the Memory
\* for writing when no thread reads it; the Memory for reading at any time, no
\* thread holding it for writing from one step to the next
CanTake(t, lock) ==
    IF lock = MemRead THEN TRUE
    ELSE IF lock = MemWrite THEN \A u \in Threads \ {t} : MemRead \notin Held(u)
    ELSE \A u \in Threads \ {t} : lock \notin Held(u)

(* The Driver thread in Driver::start *)

\* self.lts.enqueue_programs(program_ids), with every id the loader returned
LkDrvEnqueue ==
    /\ drv_pc = "enqueue"
    /\ LkSet([LkNow EXCEPT
           !.program_queue = program_queue \o
               [i \in 1..Cardinality(DOMAIN disk_program_map) |->
                   SortedIds(DOMAIN disk_program_map)[i]],
           !.drv_pc = "loop"])

\* while self.lts.has_programs(): batch_step begins with no process id; the
\* statistics are printed when the loop is left
LkDrvLoop ==
    /\ drv_pc = "loop"
    /\ LkSet([LkNow EXCEPT
           !.drv_process_ids = << >>,
           !.drv_pc = IF program_queue = << >> THEN "done" ELSE "step"])

\* one turn of the loop of batch_step: step() under the Memory's write lock; the
\* loop ends with the admit queue empty or with the first Err
LkDrvStep ==
    /\ drv_pc = "step"
    /\ CanTake("driver", MemWrite)
    /\ LET r == LtsStep(LtsNow)
           process_ids == IF r.ok THEN Append(drv_process_ids, r.id) ELSE drv_process_ids
       IN  LkSet([LkNow EXCEPT
               !.program_queue = r.l.program_queue,
               !.unload_list = r.l.unload_list,
               !.mem_pcb_map = r.l.m.pcb_map,
               !.mem_data = r.l.m.data,
               !.mem_current_data_idx = r.l.m.current_data_idx,
               !.pcb_heap = r.l.m.heap,
               !.drv_process_ids = process_ids,
               !.drv_pc = IF r.ok /\ r.l.program_queue # << >> THEN "step"
                          ELSE IF process_ids = << >> THEN "await_sts"
                          ELSE "sched_read"])

\* for process_id in process_ids: let memory = self.memory.read().unwrap(),
\* kept to the end of the turn; get_pcb_for(process_id)
LkDrvScheduleRead ==
    /\ drv_pc = "sched_read"
    /\ CanTake("driver", MemRead)
    /\ LkSet([LkNow EXCEPT !.drv_pc = "sched_sts"])

\* schedule_process: the scheduler's mutex is taken; the PCB is pushed at once
\* when nothing is compared
LkDrvScheduleSts ==
    /\ drv_pc = "sched_sts"
    /\ CanTake("driver", StsMutex)
    /\ IF PushCompares
       THEN LkSet([LkNow EXCEPT !.drv_pc = "push_a"])
       ELSE LkSet([LkNow EXCEPT
                !.ready_queue = Append(ready_queue, mem_pcb_map[Head(drv_process_ids)]),
                !.scheduled_log = Append(scheduled_log, mem_pcb_map[Head(drv_process_ids)]),
                !.drv_pc = "sched_idle"])

\* Ord::cmp: self.pcb.lock(), the PCB pushed
LkDrvPushFirst ==
    /\ drv_pc = "push_a"
    /\ CanTake("driver", PcbMutex(mem_pcb_map[Head(drv_process_ids)]))
    /\ LkSet([LkNow EXCEPT !.drv_pc = "push_b"])

\* Ord::cmp: other.pcb.lock(), the first PCB's mutex held; both are released and
\* the PCB is in the heap
LkDrvPushSecond ==
    /\ drv_pc = "push_b"
    /\ CanTake("driver", PcbMutex(PushParent))
    /\ LkSet([LkNow EXCEPT
           !.ready_queue = Append(ready_queue, mem_pcb_map[Head(drv_process_ids)]),
           !.scheduled_log = Append(scheduled_log, mem_pcb_map[Head(drv_process_ids)]),
           !.drv_pc = "sched_idle"])

\* schedule_process: the mutex of the idle flag is taken, the flag cleared and
\* the dispatcher notified; every lock is released
LkDrvScheduleIdle ==
    /\ drv_pc = "sched_idle"
    /\ CanTake("driver", IdleMutex)
    /\ LkSet([LkNow EXCEPT
           !.all_procs_are_finished = IdleAfterSchedule(all_procs_are_finished),
           !.drv_process_ids = Tail(drv_process_ids),
           !.drv_pc = IF Tail(drv_process_ids) = << >> THEN "await_sts" ELSE "sched_read"])

\* await_all_procs_finished: the scheduler's mutex, for the condvar
LkDrvAwaitSts ==
    /\ drv_pc = "await_sts"
    /\ CanTake("driver", StsMutex)
    /\ LkSet([LkNow EXCEPT !.drv_pc = "await_idle"])

\* await_all_procs_finished: the mutex of the idle flag; the wait releases it
LkDrvAwaitIdle ==
    /\ drv_pc = "await_idle"
    /\ CanTake("driver", IdleMutex)
    /\ LkSet([LkNow EXCEPT
           !.drv_pc = IF all_procs_are_finished THEN "stats_read" ELSE "await_wait"])

\* the wait ends: the flag was raised, and the mutex is taken again
LkDrvAwaitWake ==
    /\ drv_pc = "await_wait"
    /\ all_procs_are_finished
    /\ CanTake("driver", IdleMutex)
    /\ LkSet([LkNow EXCEPT !.drv_pc = "stats_read"])

\* the handles of Memory's PCBs, sorted by id
SortedPcbs ==
    [i \in 1..Cardinality(DOMAIN mem_pcb_map) |->
        mem_pcb_map[SortedIds(DOMAIN mem_pcb_map)[i]]]

\* the comparisons sort_by makes on the PCBs hs: neighbours, either one first
ComparisonPlans(hs) ==
    IF Len(hs) < 2 THEN {<< >>}
    ELSE {[k \in 1..(2 * (Len(hs) - 1)) |->
              LET i == (k + 1) \div 2
              IN  IF (k % 2 = 1) = first[i] THEN hs[i] ELSE hs[i + 1]] :
             first \in [1..(Len(hs) - 1) -> BOOLEAN]}

\* self.memory.read().unwrap().get_pcbs(true): the read lock is kept until the
\* PCBs are sorted
LkDrvStatsRead ==
    /\ drv_pc = "stats_read"
    /\ CanTake("driver", MemRead)
    /\ \E plan \in ComparisonPlans(SortedPcbs) :
          LkSet([LkNow EXCEPT
              !.drv_process_ids = IF plan = << >> THEN SortedPcbs ELSE plan,
              !.drv_pc = IF plan # << >> THEN "sort_a"
                         ELSE IF SortedPcbs = << >> THEN "dump"
                         ELSE "stats_pcb"])

\* a.lock().unwrap().get_id() of a comparison
LkDrvSortFirst ==
    /\ drv_pc = "sort_a"
    /\ CanTake("driver", PcbMutex(drv_process_ids[1]))
    /\ LkSet([LkNow EXCEPT !.drv_pc = "sort_b"])

\* b.lock().unwrap().get_id() of the comparison, a's mutex held; then both are
\* released, and with the last comparison the read lock
LkDrvSortSecond ==
    /\ drv_pc = "sort_b"
    /\ CanTake("driver", PcbMutex(drv_process_ids[2]))
    /\ LET rest == Tail(Tail(drv_process_ids))
       IN  LkSet([LkNow EXCEPT
               !.drv_process_ids = IF rest = << >> THEN SortedPcbs ELSE rest,
               !.drv_pc = IF rest = << >> THEN "stats_pcb" ELSE "sort_a"])

\* for pcb in pcbs: pcb.lock().unwrap(), and the statistics are pushed
LkDrvStatsPcb ==
    /\ drv_pc = "stats_pcb"
    /\ CanTake("driver", PcbMutex(drv_process_ids[1]))
    /\ LkSet([LkNow EXCEPT
           !.process_stats = Append(process_stats,
                                    <<pcb_heap[drv_process_ids[1]].id,
                                      pcb_heap[drv_process_ids[1]].priority>>),
           !.drv_process_ids = Tail(drv_process_ids),
           !.drv_pc = IF Tail(drv_process_ids) = << >> THEN "dump" ELSE "stats_pcb"])

\* self.memory.write().unwrap().core_dump()
LkDrvCoreDump ==
    /\ drv_pc = "dump"
    /\ CanTake("driver", MemWrite)
    /\ LET m == MemCoreDump(MemNow)
       IN  LkSet([LkNow EXCEPT
               !.mem_pcb_map = m.pcb_map,
               !.mem_data = m.data,
               !.mem_current_data_idx = m.current_data_idx,
               !.drv_pc = "loop"])

LkDriver ==
    LkDrvEnqueue \/ LkDrvLoop \/ LkDrvStep \/ LkDrvScheduleRead \/ LkDrvScheduleSts
        \/ LkDrvPushFirst \/ LkDrvPushSecond \/ LkDrvScheduleIdle \/ LkDrvAwaitSts \/ LkDrvAwaitIdle \/ LkDrvAwaitWake
        \/ LkDrvStatsRead \/ LkDrvSortFirst \/ LkDrvSortSecond \/ LkDrvStatsPcb
        \/ LkDrvCoreDump

(* The dispatcher thread in ShortTermScheduler::dispatch *)

\* the scheduler's mutex, for the condvar of the idle flag
LkDispCloneSts ==
    /\ disp_pc = "clone_sts"
    /\ CanTake("dispatcher", StsMutex)
    /\ LkSet([LkNow EXCEPT !.disp_pc = "idle_lock"])

\* the mutex of the idle flag; the wait releases it
LkDispIdleLock ==
    /\ disp_pc = "idle_lock"
    /\ CanTake("dispatcher", IdleMutex)
    /\ LkSet([LkNow EXCEPT
           !.disp_pc = IF all_procs_are_finished THEN "idle_wait" ELSE "pop"])

\* the wait ends: the flag was cleared, and the mutex is taken again
LkDispIdleWake ==
    /\ disp_pc = "idle_wait"
    /\ ~all_procs_are_finished
    /\ CanTake("dispatcher", IdleMutex)
    /\ LkSet([LkNow EXCEPT !.disp_pc = "pop"])

\* under the scheduler's mutex: in_pcb = ready_queue.pop().unwrap(),
\* out_pcb = current_pcb, current_pcb = Some(in_pcb)
LkDispPop ==
    /\ disp_pc = "pop"
    /\ CanTake("dispatcher", StsMutex)
    /\ IF ready_queue = << >>
       THEN LkSet([LkNow EXCEPT !.disp_pc = "panicked"])
       ELSE \E i \in PopCandidates(scheduling_alg, ready_queue) :
               LkSet([LkNow EXCEPT
                   !.disp_in_pcb = ready_queue[i],
                   !.disp_out_pcb = current_pcb,
                   !.current_pcb = ready_queue[i],
                   !.ready_queue = RemoveAt(ready_queue, i),
                   !.disp_pc = "cpu_lock"])

\* let mut cpu = cpu.lock().unwrap(), kept to the end of dispatch
LkDispCpuLock ==
    /\ disp_pc = "cpu_lock"
    /\ CanTake("dispatcher", CpuMutex)
    /\ LkSet([LkNow EXCEPT !.disp_pc = "await_res"])

\* await_process_interrupt: the CpuResources mutex, for the condvar of the gate
LkDispAwaitResources ==
    /\ disp_pc = "await_res"
    /\ CanTake("dispatcher", ResourcesMutex)
    /\ LkSet([LkNow EXCEPT !.disp_pc = "await_gate"])

\* await_process_interrupt without the wait: the mutex of the run gate is kept
\* while the process still runs
LkDispAwaitGate_NoWait ==
    /\ disp_pc = "await_gate"
    /\ CanTake("dispatcher", GateMutex)
    /\ LkSet([LkNow EXCEPT !.disp_pc = "await_type"])

\* await_process_interrupt: the mutex of the run gate; the wait releases it
LkDispAwaitGate ==
    /\ disp_pc = "await_gate"
    /\ CanTake("dispatcher", GateMutex)
    /\ LkSet([LkNow EXCEPT
           !.disp_pc = IF proc_should_interrupt THEN "await_type" ELSE "await_wait"])

\* the wait ends: the gate is INTERRUPTED, and its mutex is taken again
LkDispAwaitWake ==
    /\ disp_pc = "await_wait"
    /\ proc_should_interrupt
    /\ CanTake("dispatcher", GateMutex)
    /\ LkSet([LkNow EXCEPT !.disp_pc = "await_type"])

\* self.resources.lock().unwrap().proc_interrupt_type, the gate's mutex held
LkDispAwaitType ==
    /\ disp_pc = "await_type"
    /\ CanTake("dispatcher", ResourcesMutex)
    /\ LkSet([LkNow EXCEPT
           !.disp_out_pcb_state = proc_interrupt_type,
           !.disp_pc = "in_state"])

\* in_pcb.lock().unwrap().state = ProcessState::Running
LkDispInState ==
    /\ disp_pc = "in_state"
    /\ CanTake("dispatcher", PcbMutex(disp_in_pcb))
    /\ LkSet([LkNow EXCEPT
           !.pcb_heap[disp_in_pcb].state = "Running",
           !.disp_pc = "exec_res"])

\* execute_process: the CpuResources mutex, kept to its end
LkDispExecuteResources ==
    /\ disp_pc = "exec_res"
    /\ CanTake("dispatcher", ResourcesMutex)
    /\ LkSet([LkNow EXCEPT !.disp_pc = IF disp_out_pcb = 0 THEN "exec_in" ELSE "exec_out"])

\* execute_process: under the outgoing PCB's mutex the context is saved and the
\* burst ended
LkDispExecuteOut ==
    /\ disp_pc = "exec_out"
    /\ CanTake("dispatcher", PcbMutex(disp_out_pcb))
    /\ IF ~pcb_heap[disp_out_pcb].burst_time_is_recording
       THEN LkSet([LkNow EXCEPT !.disp_pc = "panicked"])
       ELSE LkSet([LkNow EXCEPT
                !.pcb_heap = HeapAfterSave(pcb_heap, disp_in_pcb, disp_out_pcb),
                !.disp_pc = "exec_in"])

\* execute_process: the incoming PCB's mutex, kept to its end; the burst starts
LkDispExecuteIn ==
    /\ disp_pc = "exec_in"
    /\ CanTake("dispatcher", PcbMutex(disp_in_pcb))
    /\ LkSet([LkNow EXCEPT
           !.pcb_heap[disp_in_pcb].burst_time_is_recording = TRUE,
           !.disp_pc = "exec_mem"])

\* execute_process: the instructions are read under the Memory's read lock, and
\* the context is loaded
LkDispExecuteMemory ==
    /\ disp_pc = "exec_mem"
    /\ CanTake("dispatcher", MemRead)
    /\ LET in == pcb_heap[disp_in_pcb]
       IN  IF ReadBlockPanic(in.mem_start_address, in.mem_in_start_address) # "none"
           THEN LkSet([LkNow EXCEPT !.disp_pc = "panicked"])
           ELSE LkSet([LkNow EXCEPT
                    !.cpu_cache = ReadBlockFrom(mem_data, in.mem_start_address,
                                                in.mem_in_start_address),
                    !.cpu_program_counter = in.program_counter,
                    !.cpu_mem_start_address = in.mem_start_address,
                    !.cpu_registers = in.registers,
                    !.disp_pc = "exec_gate"])

\* execute_process: under the gate's mutex the gate is set RUNNING and the CPU
\* thread notified; the gate, the PCB and the CpuResources are released
LkDispExecuteGate ==
    /\ disp_pc = "exec_gate"
    /\ CanTake("dispatcher", GateMutex)
    /\ LkSet([LkNow EXCEPT
           !.proc_should_interrupt = FALSE,
           !.loaded_log = Append(loaded_log, disp_in_pcb),
           !.disp_pc = "dispose_sts"])

\* under the scheduler's mutex the outgoing PCB is disposed of by its interrupt
\* state; with a ready queue that is not empty dispatch ends here
LkDispDisposeSts ==
    /\ disp_pc = "dispose_sts"
    /\ CanTake("dispatcher", StsMutex)
    /\ IF disp_out_pcb_state = "Running" \/ (disp_out_pcb_state # "Terminated" /\ disp_out_pcb = 0)
       THEN LkSet([LkNow EXCEPT !.disp_pc = "panicked"])
       ELSE LET queue == IF disp_out_pcb_state = "Ready"
                         THEN Append(ready_queue, disp_out_pcb) ELSE ready_queue
            IN  LkSet([LkNow EXCEPT
                    !.pcb_heap = IF disp_out_pcb_state = "Terminated" THEN pcb_heap
                                 ELSE [pcb_heap EXCEPT ![disp_out_pcb].state =
                                          disp_out_pcb_state],
                    !.ready_queue = queue,
                    !.disp_pc = IF queue = << >> THEN "dispose_idle" ELSE "clone_sts"])

\* the ready queue is empty: under the mutex of the idle flag the flag is raised
\* and the Driver notified; dispatch ends
LkDispDisposeIdle ==
    /\ disp_pc = "dispose_idle"
    /\ CanTake("dispatcher", IdleMutex)
    /\ LkSet([LkNow EXCEPT
           !.all_procs_are_finished = IdleAfterDispatch(all_procs_are_finished, ready_queue),
           !.disp_pc = "clone_sts"])

LkDispatcher ==
    LkDispCloneSts \/ LkDispIdleLock \/ LkDispIdleWake \/ LkDispPop \/ LkDispCpuLock
        \/ LkDispAwaitResources \/ LkDispAwaitGate \/ LkDispAwaitWake \/ LkDispAwaitType
        \/ LkDispInState \/ LkDispExecuteResources \/ LkDispExecuteOut \/ LkDispExecuteIn
        \/ LkDispExecuteMemory \/ LkDispExecuteGate \/ LkDispDisposeSts \/ LkDispDisposeIdle

(* The CPU thread in Cpu::cycle *)

\* the CpuResources mutex, for the condvar of the gate
LkCpuCloneResources ==
    /\ cpu_pc = "clone_res"
    /\ CanTake("cpu", ResourcesMutex)
    /\ LkSet([LkNow EXCEPT !.cpu_pc = "gate_lock"])

\* the mutex of the run gate; the wait releases it
LkCpuGateLock ==
    /\ cpu_pc = "gate_lock"
    /\ CanTake("cpu", GateMutex)
    /\ LkSet([LkNow EXCEPT
           !.cpu_pc = IF proc_should_interrupt THEN "gate_wait" ELSE "fetch"])

\* the wait ends: the gate is RUNNING, and its mutex is taken again
LkCpuGateWake ==
    /\ cpu_pc = "gate_wait"
    /\ ~proc_should_interrupt
    /\ CanTake("cpu", GateMutex)
    /\ LkSet([LkNow EXCEPT !.cpu_pc = "fetch"])

\* under the CpuResources mutex, kept to the end of cycle: the fetch, the
\* decoding, and the way into execute up to the lock the instruction takes
LkCpuFetch ==
    /\ cpu_pc = "fetch"
    /\ CanTake("cpu", ResourcesMutex)
    /\ IF cpu_program_counter >= Len(cpu_cache)
       THEN LkSet([LkNow EXCEPT !.cpu_pc = "panicked"])
       ELSE LET instruction == CurrentInstruction
            IN  LkSet([LkNow EXCEPT
                    !.cpu_program_counter = cpu_program_counter + 1,
                    !.cpu_pc = IF instruction.opcode = 19 THEN "execute"
                               ELSE IF IsST(instruction) THEN "store"
                               ELSE IF IsLW(instruction) THEN "load"
                               ELSE IF instruction.instr_type = 2 /\ instruction.opcode = 18
                               THEN "signal"
                               ELSE "execute"])

\* the state after Cpu::execute of the instruction fetched
LkAfterExecute ==
    LET c == Execute([program_counter |-> cpu_program_counter,
                      registers |-> cpu_registers,
                      mem_start_address |-> cpu_mem_start_address,
                      memory |-> mem_data,
                      memory_poisoned |-> mem_poisoned,
                      should_interrupt |-> proc_should_interrupt,
                      interrupt_type |-> proc_interrupt_type,
                      dma |-> dma_command,
                      fault |-> "none",
                      overflowed |-> FALSE],
                     ExecutedInstruction)
    IN  [LkNow EXCEPT
            !.cpu_program_counter = c.program_counter,
            !.cpu_registers = c.registers,
            !.mem_data = c.memory,
            !.proc_should_interrupt = c.should_interrupt,
            !.proc_interrupt_type = c.interrupt_type,
            !.dma_command = c.dma,
            !.cpu_pc = IF c.fault # "none" \/ c.overflowed THEN "panicked"
                       ELSE IF c.dma.kind # "None" THEN "dma_wait"
                       ELSE "clone_res"]

\* an instruction that takes no lock; RD and WR send their command
LkCpuExecute ==
    /\ cpu_pc = "execute"
    /\ LkSet(LkAfterExecute)

\* ST: Cpu::store under the Memory's write lock
LkCpuStore ==
    /\ cpu_pc = "store"
    /\ CanTake("cpu", MemWrite)
    /\ LkSet(LkAfterExecute)

\* LW: Cpu::fetch under the Memory's read lock
LkCpuLoad ==
    /\ cpu_pc = "load"
    /\ CanTake("cpu", MemRead)
    /\ LkSet(LkAfterExecute)

\* HLT: signal_interrupt under the mutex of the gate
LkCpuSignal ==
    /\ cpu_pc = "signal"
    /\ CanTake("cpu", GateMutex)
    /\ LkSet(LkAfterExecute)

\* response_receiver.recv().unwrap() returns: RD puts the value into its register
LkCpuDmaReply ==
    /\ cpu_pc = "dma_wait"
    /\ dma_response.ready
    /\ LkSet([LkNow EXCEPT
           !.cpu_registers = IF ExecutedInstruction.opcode = 0
                             THEN [cpu_registers EXCEPT ![ExecutedInstruction.reg_1_num] =
                                      dma_response.value]
                             ELSE cpu_registers,
           !.dma_response = [ready |-> FALSE, value |-> 0],
           !.cpu_pc = "clone_res"])

LkCpuThread ==
    LkCpuCloneResources \/ LkCpuGateLock \/ LkCpuGateWake \/ LkCpuFetch \/ LkCpuExecute
        \/ LkCpuStore \/ LkCpuLoad \/ LkCpuSignal \/ LkCpuDmaReply

(* The DMA thread *)

\* recv_timeout returns a command
LkDmaReceive ==
    /\ dma_pc = "idle"
    /\ dma_command.kind # "None"
    /\ LkSet([LkNow EXCEPT !.dma_pc = IF dma_command.kind = "Fetch" THEN "fetch" ELSE "store"])

\* Fetch: read_from under the Memory's read lock, and the reply
LkDmaFetch ==
    /\ dma_pc = "fetch"
    /\ CanTake("dma", MemRead)
    /\ IF MemAccessPanics(dma_command.address)
       THEN LkSet([LkNow EXCEPT !.dma_pc = "panicked"])
       ELSE LkSet([LkNow EXCEPT
                !.dma_response = [ready |-> TRUE, value |-> At(mem_data, dma_command.address)],
                !.dma_command = [kind |-> "None", address |-> 0, value |-> 0],
                !.dma_pc = "idle"])

\* Store: write_to under the Memory's write lock, and the reply
LkDmaStore ==
    /\ dma_pc = "store"
    /\ CanTake("dma", MemWrite)
    /\ IF MemAccessPanics(dma_command.address)
       THEN LkSet([LkNow EXCEPT !.dma_pc = "panicked"])
       ELSE LkSet([LkNow EXCEPT
                !.mem_data = SetAt(mem_data, dma_command.address, dma_command.value),
                !.dma_response = [ready |-> TRUE, value |-> 0],
                !.dma_command = [kind |-> "None", address |-> 0, value |-> 0],
                !.dma_pc = "idle"])

LkDmaThread == LkDmaReceive \/ LkDmaFetch \/ LkDmaStore

NextLocks == LkDriver \/ LkDispatcher \/ LkCpuThread \/ LkDmaThread

SpecLocks == InitLocks /\ [][NextLocks]_vars

(***************************************************************************)
(* Properties of the locks                                                 *)
(***************************************************************************)
\* the thread t cannot go on before the thread u does: u holds the mutex t is
\* about to take; u reads the Memory t is about to write; u waits to write the
\* Memory that a thread reads, t itself perhaps, and t is about to read it (a
\* lock that prefers writers admits no reader then); u is the DMA thread, whose
\* reply t waits for
WaitsFor(t, u) ==
    /\ t # u
    /\ \/ Wanted(t) \in Held(u)
       \/ Wanted(t) = MemWrite /\ MemRead \in Held(u)
       \/ /\ Wanted(t) = MemRead
          /\ Wanted(u) = MemWrite
          /\ \E v \in Threads \ {u} : MemRead \in Held(v)
       \/ Wanted(t) = DmaReply /\ u = "dma" /\ ~dma_response.ready

\* the threads t cannot go on before, directly or through others
WaitsForClosure(t) ==
    LET step(S) == S \cup {v \in Threads : \E u \in S : WaitsFor(u, v)}
    IN  step(step(step({v \in Threads : WaitsFor(t, v)})))

\* some threads wait for one another in a cycle
CyclicWait == \E t \in Threads : t \in WaitsForClosure(t)

\* Driver::start has returned, the dispatcher waits for a process to be
\* scheduled, the CPU thread for one to be loaded, the DMA thread for a command
Quiescent ==
    /\ drv_pc = "done"
    /\ disp_pc = "idle_wait"
    /\ cpu_pc = "gate_wait"
    /\ dma_pc = "idle"

\* C37: with processes that all reach HLT, in no reachable state do the Driver
\* thread, the dispatcher thread, the CPU thread and the DMA thread wait for one
\* another in a cycle, on the scheduler's mutex, the mutex of the idle flag, the
\* mutex around the Cpu, the CpuResources mutex, the mutex of the run gate, a
\* PCB's mutex, the Memory's lock or a DMA reply; and the threads come to a
\* stop only when Driver::start has returned and every other thread waits for
\* work.
C37_DeadlockFreedom ==
    /\ ~CyclicWait
    /\ ~(ENABLED NextLocks) => Quiescent

\* the dispatcher waits for the CpuResources mutex, which the CPU thread holds,
\* while the CPU thread itself waits for a third thread
C37_Witness ==
    \E t, u, v \in Threads :
        /\ WaitsFor(t, u)
        /\ WaitsFor(u, v)
        /\ Wanted(t) = ResourcesMutex
        /\ ResourcesMutex \in Held(u)


(***************************************************************************)
(* The Driver's batch loop with programs of every size the Disk accepts    *)
(***************************************************************************)
\* the program files of SysCatalogs, and two with a program of 1025 words, one
\* more than Memory holds: alone, and between two small programs
BatchCatalogs ==
    SysCatalogs \cup
    {<<SysProgram(1, 1, <<HLT_WORD>>, 1025)>>,
     <<SysProgram(1, 1, SmallCode(1), 8), SysProgram(2, 2, <<HLT_WORD>>, 1025),
       SysProgram(3, 3, SmallCode(3), 8)>>}

\* Driver::new, then Driver::start up to the programs being on the Disk
InitBatch ==
    \E progs \in BatchCatalogs, alg \in {"Fifo", "Priority"} :
        InitKernel(progs, alg, "enqueue", "top", "top")

SpecBatch == InitBatch /\ [][NextSys]_vars

\* C38: every batch_step of the Driver's loop, which finds Memory empty and the
\* admit queue not empty, admits at least one program: the queue is shorter
\* after it, so that the loop ends after at most as many batches as programs
\* were enqueued.
C38_BatchLoopTerminates ==
    [][DrvBatchStep =>
          /\ mem_current_data_idx = 0
          /\ Len(program_queue') < Len(program_queue)]_vars

(***************************************************************************)
(* What the idle flag tells the waiting Driver                             *)
(***************************************************************************)
\* the PCB loaded onto the CPU last
LastLoaded == loaded_log[Len(loaded_log)]

\* C39: when the Driver has made the schedule_process calls of a batch and the
\* idle flag is true, so that await_all_procs_finished can return, the ready
\* queue is empty, every PCB scheduled has been loaded onto the CPU, and every
\* process scheduled other than the one loaded last has raised its Terminated
\* interrupt; for a process is loaded only when the gate is INTERRUPTED with
\* Terminated, which only the HLT of the process loaded before it brings about.
C39_IdleFlagMeaning ==
    /\ [](drv_pc = "await" /\ all_procs_are_finished =>
            /\ ready_queue = << >>
            /\ \A i \in DOMAIN scheduled_log :
                  /\ Loaded(scheduled_log[i])
                  /\ scheduled_log[i] = LastLoaded \/ Halted(scheduled_log[i]))
    /\ [][(DispLoadIncoming /\ loaded_log' # loaded_log) =>
             (proc_should_interrupt /\ proc_interrupt_type = "Terminated")]_vars

\* the Driver can leave await_all_procs_finished after a batch of two processes
\* while the second, the one loaded last, still runs
C39_Witness ==
    /\ drv_pc = "await"
    /\ all_procs_are_finished
    /\ Len(scheduled_log) = 2
    /\ Len(loaded_log) = 2
    /\ ~proc_should_interrupt


(***************************************************************************)
(* The outgoing PCB and Memory's PCB map                                   *)
(***************************************************************************)
\* the PCB h is a value of Memory's pcb_map
Registered(h) == \E id \in DOMAIN mem_pcb_map : mem_pcb_map[id] = h

\* C40: whenever the dispatcher hands an outgoing PCB to execute_process, which
\* saves the program counter and the registers of the CPU into it and ends its
\* burst, that PCB is registered in Memory's PCB map: it is never a PCB of an
\* earlier batch, whose Memory core_dump has reclaimed.
C40_OutgoingPcbRegistered ==
    [][(DispExecute /\ disp_out_pcb # 0) => Registered(disp_out_pcb)]_vars

====
